---- MODULE Spec2Model ----
(***************************************************************************)
(* Run orchestration of spark-expectations:                                *)
(* SparkExpectations.with_expectations(...)(func) -> wrapper, as written   *)
(* in spark_expectations/core/expectations.py.                             *)
(*                                                                         *)
(* One SparkExpectations instance is modelled.  Its context object is      *)
(* built once by __post_init__ and is then used by every wrapper created   *)
(* through with_expectations.  A run is one call of a wrapper; the wrapper *)
(* body is modelled statement by statement with a program counter.         *)
(*                                                                         *)
(* The stage evaluator (func_process, returned by execute_dq_process), the *)
(* context setters' default arguments and the statistics decorator are not *)
(* part of expectations.py; they are modelled from the design document.    *)
(***************************************************************************)
EXTENDS Integers, Sequences, FiniteSets, TLC

\* ------------------------------------------------------------------ bounds
\* largest number of runs on the instance (SpecDecor)
MaxRuns == 2
\* largest number of records the producer's dataset holds
MaxRows == 1

\* ------------------------------------------------------- stages and status
StageOrder == <<"source_agg", "source_query", "row", "final_agg", "final_query">>

Stages == {StageOrder[i] : i \in 1..Len(StageOrder)}

NumStages == Len(StageOrder)

\* position of a stage in the fixed order
StageIndex(s) == CHOOSE i \in 1..NumStages : StageOrder[i] = s

\* the stages that keep a result collection in the context
ResultStages == Stages \ {"row"}

\* default argument of set_dq_run_status()
DefaultRunStatus == "Failed"

\* default argument of set_<stage>_dq_status()
DefaultStageStatus == "Skipped"

\* exception classes seen by the caller of the wrapper
MiscException == "SparkExpectationsMiscException"

DataframeNotReturnedException == "SparkExpectationsDataframeNotReturnedException"

\* ------------------------------------------------------------------ datasets
\* A dataset handle: where it came from and how many records it holds.
\* kind "none" is Python's None, kind "other" a non-DataFrame object.
NoneDF == [kind |-> "none", n |-> 0]

NotADataFrame == [kind |-> "other", n |-> 0]

DataFrameOf(k, cnt) == [kind |-> k, n |-> cnt]

IsDataFrame(d) == d.kind \in {"raw", "temp", "row"}

\* truth value of a dataset handle in `if _row_dq_df`
Truthy(d) == d.kind # "none"

\* ------------------------------------------------------------ configuration
FlagNames == {"row_dq", "agg_dq", "source_agg_dq", "target_agg_dq",
              "query_dq", "source_query_dq", "target_query_dq"}

\* default of se_notifications_on_error_drop_threshold
DefaultErrorDropThreshold == 100

\* a value of spark_conf[se_notifications_on_error_drop_threshold]: its Python
\* type and, for an int, its value
IntValue(v) == [type |-> "int", val |-> v]

StrValue == [type |-> "str", val |-> 0]

\* the key is not in spark_conf: the default dict supplies the value
AbsentValue == IntValue(DefaultErrorDropThreshold)

\* the values a caller may put under the key
ConfThresholds == {IntValue(v) : v \in {0, 50, 100}} \cup {StrValue}

\* _error_drop_threshold = int(v) if isinstance(v, int) else 100
ErrorDropThreshold(raw) == IF raw.type = "int" THEN raw.val ELSE 100

BoolValue(b) == [type |-> "bool", val |-> b]

\* the keys of the four notification flags in spark_conf
NotificationKeys ==
    {"se_notifications_on_start", "se_notifications_on_completion",
     "se_notifications_on_fail",
     "se_notifications_on_error_drop_exceeds_threshold_breach"}

\* _default_notification_dict, the flags of it
DefaultNotificationDict ==
    [k \in NotificationKeys |-> BoolValue(k = "se_notifications_on_fail")]

\* what a caller may put under a flag's key: a bool, the int 1, a string
FlagValues == {BoolValue(TRUE), BoolValue(FALSE), IntValue(1), StrValue}

\* spark_conf, the flags of it: values under some of the keys; with no key
\* it is None or {}
SparkConfs == UNION {[K -> FlagValues] : K \in SUBSET NotificationKeys}

\* {**_default_notification_dict, **spark_conf} if spark_conf
\* else _default_notification_dict
NotificationDict(spark_conf) ==
    IF DOMAIN spark_conf # {}
      THEN [k \in NotificationKeys |->
              IF k \in DOMAIN spark_conf THEN spark_conf[k]
                                         ELSE DefaultNotificationDict[k]]
      ELSE DefaultNotificationDict

\* mutant of ResolveFlag: a value that is not a bool leaves the flag on
ResolveFlagOn(v) == IF v.type = "bool" THEN v.val ELSE TRUE

\* bool(v) if isinstance(v, bool) else False
ResolveFlag(v) == IF v.type = "bool" THEN v.val ELSE FALSE

\* the spark_conf of a decoration whose only flag is the breach notification
BreachConf(b) ==
    IF b THEN [k \in {"se_notifications_on_error_drop_exceeds_threshold_breach"}
                 |-> BoolValue(TRUE)]
         ELSE <<>>

\* Python's None, and a value that is there
None == [present |-> FALSE]

Some(v) == [present |-> TRUE, val |-> v]

\* the target_table argument of the decorations
TargetTable == "orders"

\* the target_table_view arguments a caller may give: none, the empty string
\* or a name
TargetTableViews == {None, Some(""), Some("curated")}

\* mutant of TargetTableView: the argument is ignored
TargetTableViewDerivedOnly(target_table, target_table_view) ==
    target_table \o "_view"

\* _target_table_view = target_table_view if target_table_view
\*                      else f"{target_table}_view"
TargetTableView(target_table, target_table_view) ==
    IF target_table_view.present /\ target_table_view.val # ""
      THEN target_table_view.val
      ELSE target_table \o "_view"

\* the names a view may be published under
ViewNames ==
    {v.val : v \in {w \in TargetTableViews : w.present /\ w.val # ""}}
        \cup {TargetTable \o "_view"}

\* the streaming options of the statistics: the default dict, or a copy of
\* self.stats_streaming_options
StreamingStatsDicts == {"default", "options"}

\* what one with_expectations(...) decoration captures in its closure and
\* what it computes for the context; no target_table_view, no notification
\* flag in spark_conf and no stats_streaming_options unless said otherwise
AllConfigs ==
    {[flags |-> f,
      write_to_table |-> w,
      write_to_temp_table |-> t,
      spark_conf |-> BreachConf(b),
      notification_on_breach |-> b,
      conf_threshold |-> raw,
      error_drop_threshold |-> ErrorDropThreshold(raw),
      target_table |-> TargetTable,
      target_table_view |-> None,
      view_name |-> TargetTableView(TargetTable, None),
      notification_on_start |-> FALSE,
      notification_on_completion |-> FALSE,
      notification_on_fail |-> TRUE,
      se_streaming_stats_dict |-> "default"] :
        f \in [FlagNames -> BOOLEAN], w \in BOOLEAN, t \in BOOLEAN,
        b \in BOOLEAN, raw \in ConfThresholds}

\* the decoration c given target_table_view = v
WithView(c, v) ==
    [c EXCEPT !.target_table_view = v,
              !.view_name = TargetTableView(c.target_table, v)]

\* the decoration c given the flags of spark_conf: the four flags as _except
\* resolves them
WithSparkConf(c, spark_conf) ==
    LET d == NotificationDict(spark_conf)
    IN  [c EXCEPT
           !.spark_conf = spark_conf,
           !.notification_on_start =
               ResolveFlag(d["se_notifications_on_start"]),
           !.notification_on_completion =
               ResolveFlag(d["se_notifications_on_completion"]),
           !.notification_on_fail =
               ResolveFlag(d["se_notifications_on_fail"]),
           !.notification_on_breach =
               ResolveFlag(
                 d["se_notifications_on_error_drop_exceeds_threshold_breach"])]

\* the decorations of Spec: every combination of the seven flags and of
\* write_to_table, with the temp table and the breach notification off and
\* no threshold supplied
Configs ==
    {c \in AllConfigs : /\ ~c.write_to_temp_table
                        /\ ~c.notification_on_breach
                        /\ c.conf_threshold = AbsentValue}

VARIABLES
    ctxObjects,    \* number of SparkExpectationsContext objects constructed
    self_context,  \* identity of the object held in self._context
    context,       \* the fields of that object
    run,           \* number of wrapper invocations started so far
    runContext,    \* runContext[r]: identity of the context run r works on
    cfg,           \* closure variables of the wrapper being run
    pc,            \* position in the wrapper body
    stage,         \* index of the stage block control is in (0: none)
    local,         \* local variables of the wrapper frame
    outcome,       \* per stage: what its evaluator did in this run
    log,           \* events of the current run, in order
    exc,           \* exception leaving the wrapper: class and cause
    stats,         \* the statistics record written for the current run
    dq,            \* a row-level evaluation or a call of the writer:
                   \* arguments and result
    prev,          \* what the run before the current one was given and left
    views,         \* the temporary views of the Spark session, by name
    wrappers,      \* closures of the wrappers the decorations created that
                   \* can still be called
    running        \* which of them is being run, or was run last

vars == <<ctxObjects, self_context, context, run, runContext, cfg, pc, stage,
          local, outcome, log, exc, stats, dq, prev, views, wrappers,
          running>>

\* ---------------------------------------------------------------- context
\* SparkExpectationsContext(product_id): every field at its default
NewContext ==
    [dq_run_status |-> DefaultRunStatus,
     status        |-> [s \in Stages |-> DefaultStageStatus],
     input_count   |-> 0,
     error_count   |-> 0,
     output_count  |-> 0,
     result        |-> [s \in ResultStages |-> 0],
     summarised_row_dq_res   |-> 0,
     rules_exceeds_threshold |-> 0,
     start_time    |-> [s \in Stages |-> 0],
     end_time      |-> [s \in Stages |-> 0],
     error_drop_threshold |-> DefaultErrorDropThreshold,
     notification_on_start      |-> FALSE,
     notification_on_completion |-> FALSE,
     notification_on_fail       |-> TRUE,
     se_streaming_stats_dict    |-> "default"]

\* self._context.set_notification_on_start(...), ..._on_completion(...),
\* ..._on_fail(...), set_se_streaming_stats_dict(...) of one decoration
SetAtDecoration(ctx, c) ==
    [ctx EXCEPT !.notification_on_start = c.notification_on_start,
                !.notification_on_completion = c.notification_on_completion,
                !.notification_on_fail = c.notification_on_fail,
                !.se_streaming_stats_dict = c.se_streaming_stats_dict]

\* the duration the context reports for stage s: zero unless both its start
\* and its end time are set, else the time between them
StageRunTime(ctx, s) ==
    IF ctx.start_time[s] = 0 \/ ctx.end_time[s] = 0
      THEN "zero"
      ELSE "end_minus_start"

\* no temporary view in the session
NoViews == [v \in ViewNames |-> NoneDF]

\* dataset.createOrReplaceTempView(name)
CreateOrReplaceTempView(vs, d, name) == [vs EXCEPT ![name] = d]

\* nothing has been passed to the evaluator of a stage
NoArgs == [df |-> NoneDF, counts |-> <<>>]

\* locals of a wrapper frame before any assignment
NoLocals ==
    [df |-> NoneDF, input_count |-> 0, output_count |-> 0, error_count |-> 0,
     row_dq_df |-> NoneDF, status |-> "none", ret |-> NoneDF,
     dq_df |-> [s \in ResultStages |-> NoneDF], written |-> NoneDF,
     args |-> [s \in Stages |-> NoArgs]]

NoOutcome == [s \in Stages |-> "none"]

NoExc == [class |-> "none", cause |-> "none"]

\* no statistics record has been written
NoStats == [written |-> FALSE]

\* no row-level evaluation is under study
NoDq == [rules |-> <<>>, df |-> <<>>, done |-> FALSE]

\* no earlier run is remembered
NoPrev == [taken |-> FALSE]

\* SparkExpectations.__post_init__, then one with_expectations(...)(func):
\* the closure of the wrapper holds cfg, one of the decorations in C
InitWith(C) ==
    /\ ctxObjects = 1
    /\ self_context = 1
    /\ cfg \in C
    /\ context = SetAtDecoration(NewContext, cfg)
    /\ wrappers = <<cfg>>
    /\ running = 1
    /\ views = NoViews
    /\ run = 0
    /\ runContext = <<>>
    /\ pc = "idle"
    /\ stage = 0
    /\ local = NoLocals
    /\ outcome = NoOutcome
    /\ log = <<>>
    /\ exc = NoExc
    /\ stats = NoStats
    /\ prev = NoPrev
    /\ dq = NoDq

\* ------------------------------------------------------- helpers of a step
Logged(e) == log' = Append(log, e)

\* mutant of Raise: the handler swallows the exception and the call returns
Swallow(cause) ==
    /\ pc' = "returned"
    /\ exc' = NoExc

\* except Exception as e: raise SparkExpectationsMiscException(...)
Raise(cause) ==
    /\ pc' = "raised"
    /\ exc' = [class |-> MiscException, cause |-> cause]

\* the n-th stage block is entered at its `if`
EnterStage(i) ==
    /\ pc' = "guard"
    /\ stage' = i

\* mutant of StageEnabled: a stage is not entered once a stage has Failed
StageEnabledStopOnFailure(s, c) ==
    /\ \A e \in Stages : context.status[e] # "Failed"
    /\ CASE s = "source_agg"   -> c.flags["agg_dq"] /\ c.flags["source_agg_dq"]
         [] s = "source_query" -> c.flags["query_dq"] /\ c.flags["source_query_dq"]
         [] s = "row"          -> c.flags["row_dq"]
         [] s = "final_agg"    -> /\ c.flags["row_dq"]
                                  /\ c.flags["agg_dq"]
                                  /\ c.flags["target_agg_dq"]
         [] s = "final_query"  -> /\ c.flags["row_dq"]
                                  /\ c.flags["query_dq"]
                                  /\ c.flags["target_query_dq"]

\* mutant of StageEnabled: the final stages do not look at row_dq
StageEnabledNoRowCheck(s, c) ==
    CASE s = "source_agg"   -> c.flags["agg_dq"] /\ c.flags["source_agg_dq"]
      [] s = "source_query" -> c.flags["query_dq"] /\ c.flags["source_query_dq"]
      [] s = "row"          -> c.flags["row_dq"]
      [] s = "final_agg"    -> c.flags["agg_dq"] /\ c.flags["target_agg_dq"]
      [] s = "final_query"  -> c.flags["query_dq"] /\ c.flags["target_query_dq"]

\* the condition of the `if` that opens a stage block
StageEnabled(s, c) ==
    CASE s = "source_agg"   -> c.flags["agg_dq"] /\ c.flags["source_agg_dq"]
      [] s = "source_query" -> c.flags["query_dq"] /\ c.flags["source_query_dq"]
      [] s = "row"          -> c.flags["row_dq"]
      [] s = "final_agg"    -> /\ c.flags["row_dq"]
                               /\ c.flags["agg_dq"]
                               /\ c.flags["target_agg_dq"]
      [] s = "final_query"  -> /\ c.flags["row_dq"]
                               /\ c.flags["query_dq"]
                               /\ c.flags["target_query_dq"]

\* ------------------------------------------------------ wrapper: prologue
\* mutant of Invoke: every call constructs a context of its own
InvokeFreshContext ==
    /\ run' = run + 1
    /\ ctxObjects' = ctxObjects + 1
    /\ self_context' = ctxObjects + 1
    /\ context' = NewContext
    /\ runContext' = Append(runContext, ctxObjects + 1)
    /\ pc' = "func"
    /\ stage' = 0
    /\ local' = NoLocals
    /\ outcome' = NoOutcome
    /\ log' = <<>>
    /\ exc' = NoExc
    /\ stats' = NoStats
    /\ UNCHANGED <<running, views, wrappers, cfg, dq, prev>>

\* wrapper(*args, **kwargs) is entered: a new frame, working on self._context
Invoke ==
    /\ run' = run + 1
    /\ runContext' = Append(runContext, self_context)
    /\ pc' = "func"
    /\ stage' = 0
    /\ local' = NoLocals
    /\ outcome' = NoOutcome
    /\ log' = <<>>
    /\ exc' = NoExc
    /\ stats' = NoStats
    /\ UNCHANGED <<running, views, wrappers, prev, dq, ctxObjects, self_context, context, cfg>>

\* the first call of the wrapper
Call ==
    /\ pc = "idle"
    /\ Invoke

\* what the producer callable may hand back that can be counted: a dataset
\* of up to MaxRows records, or an object of another type with a count()
CountableResults ==
    {DataFrameOf("raw", k) : k \in 0..MaxRows} \cup {NotADataFrame}

\* _df = func(*args, **kwargs); table_name = ...; _input_count = _df.count();
\* the other locals
Produce ==
    /\ pc = "func"
    /\ \E d \in CountableResults :
         local' = [local EXCEPT !.df = d,
                                !.input_count = d.n,
                                !.output_count = 0,
                                !.error_count = 0,
                                !.row_dq_df = NoneDF]
    /\ pc' = "reset"
    /\ UNCHANGED <<running, views, wrappers, prev, dq, stats, ctxObjects, self_context, context, run, runContext, cfg,
                   stage, outcome, log, exc>>

\* mutant of ProduceRaises: the stage statuses are put back before the
\* producer is called
ProduceRaisesAfterReset ==
    /\ pc = "func"
    /\ \E cause \in {"producer", "count"} : Raise(cause)
    /\ context' = [context EXCEPT
                     !.status = [s \in Stages |-> DefaultStageStatus]]
    /\ UNCHANGED <<running, views, wrappers, prev, dq, stats, ctxObjects, self_context, run, runContext, cfg,
                   stage, local, outcome, log>>

\* func(*args, **kwargs) raises, or _df.count() raises (no such method, as
\* on None, or the job fails)
ProduceRaises ==
    /\ pc = "func"
    /\ \E cause \in {"producer", "count"} : Raise(cause)
    /\ UNCHANGED <<running, views, wrappers, prev, dq, stats, ctxObjects, self_context, context, run, runContext, cfg,
                   stage, local, outcome, log>>

\* mutant of ResetContext: set_input_count(_input_count) is left out
ResetContextNoInputCount(ctx, cnt) ==
    [ctx EXCEPT !.dq_run_status = DefaultRunStatus,
                !.status = [s \in Stages |-> DefaultStageStatus],
                !.input_count = 0,
                !.error_count = 0,
                !.output_count = 0,
                !.result = [s \in ResultStages |-> 0],
                !.summarised_row_dq_res = 0,
                !.start_time = [s \in Stages |-> 0],
                !.end_time = [s \in Stages |-> 0],
                !.error_drop_threshold = cfg.error_drop_threshold]

\* mutant of ResetContext: the reset also writes the notification flags and
\* the streaming options of the wrapper being run
ResetContextAndNotifications(ctx, cnt) ==
    [ctx EXCEPT !.dq_run_status = DefaultRunStatus,
                !.status = [s \in Stages |-> DefaultStageStatus],
                !.input_count = cnt,
                !.error_count = 0,
                !.output_count = 0,
                !.result = [s \in ResultStages |-> 0],
                !.summarised_row_dq_res = 0,
                !.start_time = [s \in Stages |-> 0],
                !.end_time = [s \in Stages |-> 0],
                !.error_drop_threshold = cfg.error_drop_threshold,
                !.notification_on_start = cfg.notification_on_start,
                !.notification_on_completion = cfg.notification_on_completion,
                !.notification_on_fail = cfg.notification_on_fail,
                !.se_streaming_stats_dict = cfg.se_streaming_stats_dict]

\* the fields the wrapper puts back to their defaults, then input_count
ResetContext(ctx, cnt) ==
    [ctx EXCEPT !.dq_run_status = DefaultRunStatus,
                !.status = [s \in Stages |-> DefaultStageStatus],
                !.input_count = cnt,
                !.error_count = 0,
                !.output_count = 0,
                !.result = [s \in ResultStages |-> 0],
                !.summarised_row_dq_res = 0,
                !.start_time = [s \in Stages |-> 0],
                !.end_time = [s \in Stages |-> 0],
                !.error_drop_threshold = cfg.error_drop_threshold]

\* "initialize variable with default values through set" ... set_input_count,
\* set_error_drop_threshold
Reset ==
    /\ pc = "reset"
    /\ context' = ResetContext(context, local.input_count)
    /\ Logged(<<"reset">>)
    /\ pc' = "isinstance"
    /\ UNCHANGED <<running, views, wrappers, prev, dq, stats, ctxObjects, self_context, run, runContext, cfg, stage,
                   local, outcome, exc>>

\* if isinstance(_df, DataFrame): ... else: raise ...NotReturnedException
IsInstance ==
    /\ pc = "isinstance"
    /\ IF IsDataFrame(local.df)
         THEN pc' = "temp" /\ exc' = exc
         ELSE Raise(DataframeNotReturnedException)
    /\ UNCHANGED <<running, views, wrappers, prev, dq, stats, ctxObjects, self_context, context, run, runContext, cfg,
                   stage, local, outcome, log>>

\* if write_to_temp_table: drop, write and re-read <table>_temp
TempTable ==
    /\ pc = "temp"
    /\ IF cfg.write_to_temp_table
         THEN \/ /\ local' = [local EXCEPT
                                !.df = DataFrameOf("temp", local.df.n)]
                 /\ Logged(<<"temp_write">>)
                 /\ EnterStage(1)
                 /\ exc' = exc
              \/ /\ Raise("writer")
                 /\ UNCHANGED <<local, log, stage>>
         ELSE /\ EnterStage(1)
              /\ UNCHANGED <<local, log, exc>>
    /\ UNCHANGED <<running, views, wrappers, prev, dq, stats, ctxObjects, self_context, context, run, runContext, cfg,
                   outcome>>

\* ---------------------------------------------------------- stage evaluator
\* func_process(dataset, rule_type, <stage>_flag=True, ...): what the rules of
\* the stage did on the dataset.
\*   no_rules    the rule list of the stage is empty
\*   pass        no rule is breached
\*   breach_soft a rule with action ignore or drop is breached, none with fail
\*   breach_fail a rule with action fail is breached
\*   error       a predicate or aggregate expression cannot be evaluated
EvalKinds == {"no_rules", "pass", "breach_soft", "breach_fail", "error"}

\* the status func_process returns
EvalStatus(kind) ==
    CASE kind = "no_rules"    -> "Skipped"
      [] kind = "breach_fail" -> "Failed"
      [] OTHER                -> "Passed"

\* what an aggregate or query evaluation can do on dataset d
AggOutcomes(d) ==
    IF Truthy(d) THEN {"no_rules", "pass", "breach_soft", "breach_fail",
                       "error"}
                 ELSE {"no_rules", "error"}

\* what the row evaluation can do on dataset d: kind, records failing at
\* least one rule (err), records removed (drop), and whether a dataset comes
\* back at all
RowOutcomes(d) ==
    LET none == {[kind |-> "no_rules", err |-> 0, drop |-> 0, df |-> b] :
                    b \in BOOLEAN}
        pass == {[kind |-> "pass", err |-> 0, drop |-> 0, df |-> TRUE]}
        fail == {[kind |-> "error", err |-> 0, drop |-> 0, df |-> FALSE]}
        brch == {[kind |-> k, err |-> e, drop |-> x, df |-> TRUE] :
                    k \in {"breach_soft", "breach_fail"},
                    e \in 1..d.n, x \in 0..d.n}
    IN  none \cup pass \cup fail \cup {o \in brch : o.drop <= o.err}

\* the dataset the row evaluation hands back
RowDataset(d, o) ==
    IF o.df THEN DataFrameOf("row", d.n - o.drop) ELSE NoneDF

\* the dataset a stage is evaluated on
StageInput(s, l) ==
    IF s \in {"final_agg", "final_query"} THEN l.row_dq_df ELSE l.df

CurStage == StageOrder[stage]

\* mutant of EvalArgs: the final stages are passed the raw dataset
EvalArgsRaw(s, l) ==
    [df |-> l.df,
     counts |-> IF s \in {"final_agg", "final_query"}
                  THEN <<l.error_count, l.output_count>> ELSE <<>>]

\* the arguments of func_process for stage s: the dataset and, for the
\* final stages, error_count=_error_count, output_count=_output_count
EvalArgs(s, l) ==
    [df |-> StageInput(s, l),
     counts |-> IF s \in {"final_agg", "final_query"}
                  THEN <<l.error_count, l.output_count>> ELSE <<>>]

\* the frame once func_process has been called for stage s
Passed(l, s) == [l EXCEPT !.args[s] = EvalArgs(s, l)]

\* control leaves the block of stage i
LeaveStage(i) ==
    IF i < NumStages
      THEN EnterStage(i + 1)
      ELSE pc' = "write" /\ stage' = NumStages + 1

\* ------------------------------------------------------ wrapper: a stage
\* the `if` of a stage block is false
StageSkip ==
    /\ pc = "guard"
    /\ ~StageEnabled(CurStage, cfg)
    /\ LeaveStage(stage)
    /\ UNCHANGED <<running, views, wrappers, prev, dq, stats, ctxObjects, self_context, context, run, runContext, cfg,
                   local, outcome, log, exc>>

\* mutant of StageMark: the status is left as it is
StageMarkKeeps ==
    /\ pc = "guard"
    /\ StageEnabled(CurStage, cfg)
    /\ context' = context
    /\ Logged(<<"mark", CurStage>>)
    /\ pc' = "start"
    /\ UNCHANGED <<running, views, wrappers, prev, dq, stats, ctxObjects, self_context, run, runContext, cfg, stage,
                   local, outcome, exc>>

\* set_<stage>_dq_status("Failed")
StageMark ==
    /\ pc = "guard"
    /\ StageEnabled(CurStage, cfg)
    /\ context' = [context EXCEPT !.status[CurStage] = "Failed"]
    /\ Logged(<<"mark", CurStage>>)
    /\ pc' = "start"
    /\ UNCHANGED <<running, views, wrappers, prev, dq, stats, ctxObjects, self_context, run, runContext, cfg, stage,
                   local, outcome, exc>>

\* mutant of StageStart: no start timestamp is recorded
StageStartNoTime ==
    /\ pc = "start"
    /\ context' = context
    /\ Logged(<<"start", CurStage>>)
    /\ pc' = IF CurStage = "final_query" THEN "check_view" ELSE "eval"
    /\ UNCHANGED <<running, views, wrappers, prev, dq, stats, ctxObjects, self_context, run, runContext, cfg, stage,
                   local, outcome, exc>>

\* set_<stage>_dq_start_time()
StageStart ==
    /\ pc = "start"
    /\ context' = [context EXCEPT !.start_time[CurStage] = run]
    /\ Logged(<<"start", CurStage>>)
    /\ pc' = IF CurStage = "final_query" THEN "check_view" ELSE "eval"
    /\ UNCHANGED <<running, views, wrappers, prev, dq, stats, ctxObjects, self_context, run, runContext, cfg, stage,
                   local, outcome, exc>>

\* final_query: if _target_table_view and _row_dq_df: createOrReplaceTempView
\* else: raise SparkExpectationsMiscException
CheckView ==
    /\ pc = "check_view"
    /\ IF cfg.view_name # "" /\ Truthy(local.row_dq_df)
         THEN /\ views' = CreateOrReplaceTempView(views, local.row_dq_df,
                                                  cfg.view_name)
              /\ Logged(<<"publish", CurStage>>)
              /\ pc' = "eval"
              /\ exc' = exc
         ELSE /\ Raise("no_view")
              /\ UNCHANGED <<log, views>>
    /\ UNCHANGED <<running, wrappers, prev, dq, stats, ctxObjects, self_context, context, run, runContext, cfg,
                   stage, local, outcome>>

\* mutant of AggLocals: the dataset the evaluator hands back replaces the
\* one the stage was evaluated on
AggLocalsOverwrite(l, s, k) ==
    LET back == DataFrameOf("agg", StageInput(s, l).n)
    IN  IF s \in {"final_agg", "final_query"}
          THEN [Passed(l, s) EXCEPT !.status = EvalStatus(k),
                                    !.dq_df[s] = back, !.row_dq_df = back]
          ELSE [Passed(l, s) EXCEPT !.status = EvalStatus(k),
                                    !.dq_df[s] = back, !.df = back]

\* (_source_dq_df | _source_query_dq_df | _final_dq_df | _final_query_dq_df,
\* results, _, status) = func_process(...): the dataset the evaluator hands
\* back goes to a local of its own
AggLocals(l, s, k) ==
    [Passed(l, s) EXCEPT !.status = EvalStatus(k),
                         !.dq_df[s] = DataFrameOf("agg", StageInput(s, l).n)]

\* func_process(...) for an aggregate or query stage
EvalAgg ==
    /\ pc = "eval"
    /\ CurStage # "row"
    /\ \E k \in AggOutcomes(StageInput(CurStage, local)) :
         /\ outcome' = [outcome EXCEPT ![CurStage] = k]
         /\ IF k = "error"
              THEN /\ Raise("evaluator")
                   /\ context' = context
                   /\ local' = Passed(local, CurStage)
              ELSE /\ local' = AggLocals(local, CurStage, k)
                   /\ context' = IF k = "no_rules" THEN context
                                 ELSE [context EXCEPT !.result[CurStage] = run]
                   /\ pc' = "set_status"
                   /\ exc' = exc
    /\ Logged(<<"eval", CurStage>>)
    /\ UNCHANGED <<running, views, wrappers, prev, dq, stats, ctxObjects, self_context, run, runContext, cfg, stage>>

\* mutant of RowDqContext: the entries are added to what the context holds
RowDqContextAppends(ctx, o) ==
    IF o.err = 0 THEN ctx
    ELSE [ctx EXCEPT
            !.summarised_row_dq_res = ctx.summarised_row_dq_res + run,
            !.rules_exceeds_threshold = ctx.rules_exceeds_threshold + run]

\* what the row evaluation writes to the context: when records failed, the
\* tally per rule and the threshold list, each tagged with the run that
\* wrote it
RowDqContext(ctx, o) ==
    IF o.err = 0 THEN ctx
    ELSE [ctx EXCEPT !.summarised_row_dq_res = run,
                     !.rules_exceeds_threshold = run]

\* func_process(_df, row_dq_rule_type, row_dq_flag=True)
EvalRow ==
    /\ pc = "eval"
    /\ CurStage = "row"
    /\ \E o \in RowOutcomes(local.df) :
         /\ outcome' = [outcome EXCEPT !["row"] = o.kind]
         /\ IF o.kind = "error"
              THEN /\ Raise("evaluator")
                   /\ context' = context
                   /\ local' = Passed(local, "row")
              ELSE /\ local' = [Passed(local, "row") EXCEPT
                                  !.row_dq_df = RowDataset(local.df, o),
                                  !.error_count = o.err,
                                  !.status = EvalStatus(o.kind)]
                   /\ context' = RowDqContext(context, o)
                   /\ pc' = "error_count"
                   /\ exc' = exc
    /\ Logged(<<"eval", "row">>)
    /\ UNCHANGED <<running, views, wrappers, prev, dq, stats, ctxObjects, self_context, run, runContext, cfg, stage>>

\* set_error_count(_error_count)
RowErrorCount ==
    /\ pc = "error_count"
    /\ context' = [context EXCEPT !.error_count = local.error_count]
    /\ pc' = "view"
    /\ UNCHANGED <<running, views, wrappers, prev, dq, stats, ctxObjects, self_context, run, runContext, cfg, stage,
                   local, outcome, log, exc>>

\* if _target_table_view: if _row_dq_df: createOrReplaceTempView(...)
RowView ==
    /\ pc = "view"
    /\ IF cfg.view_name # "" /\ Truthy(local.row_dq_df)
         THEN \/ /\ views' = CreateOrReplaceTempView(views, local.row_dq_df,
                                                     cfg.view_name)
                 /\ Logged(<<"publish", "row">>)
                 /\ pc' = "output_count"
                 /\ exc' = exc
              \/ /\ Raise("view")
                 /\ UNCHANGED <<log, views>>
         ELSE /\ pc' = "output_count"
              /\ UNCHANGED <<log, exc, views>>
    /\ UNCHANGED <<running, wrappers, prev, dq, stats, ctxObjects, self_context, context, run, runContext, cfg,
                   stage, local, outcome>>

\* _output_count = _row_dq_df.count() if _row_dq_df else 0; set_output_count
RowOutputCount ==
    /\ pc = "output_count"
    /\ \/ /\ local' = [local EXCEPT !.output_count =
                         IF Truthy(local.row_dq_df) THEN local.row_dq_df.n
                                                    ELSE 0]
          /\ context' = [context EXCEPT !.output_count = local'.output_count]
          /\ pc' = "set_status"
          /\ exc' = exc
       \/ /\ Truthy(local.row_dq_df)
          /\ Raise("count")
          /\ UNCHANGED <<local, context>>
    /\ UNCHANGED <<running, views, wrappers, prev, dq, stats, ctxObjects, self_context, run, runContext, cfg, stage,
                   outcome, log>>

\* mutant of SetStageStatus: the status written is not the evaluator's
SetStageStatusPassed(ctx, s, st) == [ctx EXCEPT !.status[s] = "Passed"]

\* set_<stage>_dq_status(status)
SetStageStatus(ctx, s, st) == [ctx EXCEPT !.status[s] = st]

\* mutant of StageSetStatus: a Failed status is raised as an exception
StageSetStatusRaises ==
    /\ pc = "set_status"
    /\ context' = [context EXCEPT !.status[CurStage] = local.status]
    /\ Logged(<<"status", CurStage>>)
    /\ IF local.status = "Failed"
         THEN pc' = "raised" /\ exc' = [class |-> MiscException, cause |-> "breach"]
         ELSE pc' = "end_time" /\ exc' = exc
    /\ UNCHANGED <<running, views, wrappers, prev, dq, stats, ctxObjects, self_context, run, runContext, cfg, stage,
                   local, outcome>>

\* mutant of StageSetStatus: the end timestamp is not recorded
StageSetStatusSkipEnd ==
    /\ pc = "set_status"
    /\ context' = [context EXCEPT !.status[CurStage] = local.status]
    /\ Logged(<<"status", CurStage>>)
    /\ IF CurStage = "row"
         THEN pc' = "threshold" /\ stage' = stage
         ELSE IF stage < NumStages
           THEN pc' = "guard" /\ stage' = stage + 1
           ELSE pc' = "write" /\ stage' = NumStages + 1
    /\ UNCHANGED <<running, views, wrappers, prev, dq, stats, ctxObjects, self_context, run, runContext, cfg, local,
                   outcome, exc>>

\* self._context.set_<stage>_dq_status(status)
StageSetStatus ==
    /\ pc = "set_status"
    /\ context' = SetStageStatus(context, CurStage, local.status)
    /\ Logged(<<"status", CurStage>>)
    /\ pc' = "end_time"
    /\ UNCHANGED <<running, views, wrappers, prev, dq, stats, ctxObjects, self_context, run, runContext, cfg, stage,
                   local, outcome, exc>>

\* mutant of StageEnd: control goes back to the `if` of the same block
StageEndAgain ==
    /\ pc = "end_time"
    /\ context' = [context EXCEPT !.end_time[CurStage] = run]
    /\ Logged(<<"end", CurStage>>)
    /\ IF CurStage = "row"
         THEN pc' = "threshold" /\ stage' = stage
         ELSE EnterStage(stage)
    /\ UNCHANGED <<running, views, wrappers, prev, dq, stats, ctxObjects, self_context, run, runContext, cfg, local,
                   outcome, exc>>

\* self._context.set_<stage>_dq_end_time()
StageEnd ==
    /\ pc = "end_time"
    /\ context' = [context EXCEPT !.end_time[CurStage] = run]
    /\ Logged(<<"end", CurStage>>)
    /\ IF CurStage = "row"
         THEN pc' = "threshold" /\ stage' = stage
         ELSE LeaveStage(stage)
    /\ UNCHANGED <<running, views, wrappers, prev, dq, stats, ctxObjects, self_context, run, runContext, cfg, local,
                   outcome, exc>>

\* mutant of Percentage: the quotient is cut off after two decimal places
PercentageTruncated(num, den) == (num * 10000) \div den

\* round(num / den * 100, 2), in hundredths of a percent.  The quotient is
\* rounded to the nearest hundredth; a tie needs den to be a multiple of 32,
\* which the counts explored here never are.
Percentage(num, den) == (2 * num * 10000 + den) \div (2 * den)

\* get_output_percentage, in hundredths of a percent
OutputPercentage(ctx) == Percentage(ctx.output_count, ctx.input_count)

\* get_error_percentage, in hundredths of a percent
ErrorPercentage(ctx) == Percentage(ctx.error_count, ctx.input_count)

\* get_success_percentage, in hundredths of a percent
SuccessPercentage(ctx) ==
    Percentage(ctx.input_count - ctx.error_count, ctx.input_count)

\* mutant of RowThreshold: the comparison is > where the code has >=
RowThresholdStrict ==
    /\ pc = "threshold"
    /\ IF ~cfg.notification_on_breach
         THEN /\ LeaveStage(stage)
              /\ UNCHANGED <<log, exc>>
         ELSE IF context.input_count = 0
           THEN /\ Raise("percentage")
                /\ UNCHANGED <<log, stage>>
           ELSE /\ LeaveStage(stage)
                /\ exc' = exc
                /\ IF 10000 - OutputPercentage(context)
                        > 100 * cfg.error_drop_threshold
                     THEN Logged(<<"notify", "row">>)
                     ELSE log' = log
    /\ UNCHANGED <<running, views, wrappers, prev, dq, stats, ctxObjects, self_context, context, run, runContext, cfg,
                   local, outcome>>

\* mutant of RowThreshold: an empty input counts as an output percentage of 0
RowThresholdZeroFallback ==
    /\ pc = "threshold"
    /\ LeaveStage(stage)
    /\ exc' = exc
    /\ IF /\ cfg.notification_on_breach
          /\ 10000 - (IF context.input_count = 0 THEN 0
                                                  ELSE OutputPercentage(context))
                >= 100 * cfg.error_drop_threshold
         THEN Logged(<<"notify", "row">>)
         ELSE log' = log
    /\ UNCHANGED <<running, views, wrappers, prev, dq, stats, ctxObjects, self_context, context, run, runContext, cfg,
                   local, outcome>>

\* if _notification_on_error_drop_exceeds_threshold_breach is True and
\* (100 - get_output_percentage) >= _error_drop_threshold: notify
RowThreshold ==
    /\ pc = "threshold"
    /\ IF ~cfg.notification_on_breach
         THEN /\ LeaveStage(stage)
              /\ UNCHANGED <<log, exc>>
         ELSE IF context.input_count = 0
           THEN /\ Raise("percentage")
                /\ UNCHANGED <<log, stage>>
           ELSE /\ LeaveStage(stage)
                /\ exc' = exc
                /\ IF 10000 - OutputPercentage(context)
                        >= 100 * cfg.error_drop_threshold
                     THEN Logged(<<"notify", "row">>)
                     ELSE log' = log
    /\ UNCHANGED <<running, views, wrappers, prev, dq, stats, ctxObjects, self_context, context, run, runContext, cfg,
                   local, outcome>>

\* ------------------------------------------------------ wrapper: epilogue
\* mutant of WriteEnabled: write_to_table is not looked at
WriteEnabledWithoutFlag(c) == c.flags["row_dq"]

\* if _row_dq and write_to_table: write_df_to_table(_row_dq_df, table_name)
WriteEnabled(c) == c.flags["row_dq"] /\ c.write_to_table

WriteToTable ==
    /\ pc = "write"
    /\ IF WriteEnabled(cfg)
         THEN \/ /\ Truthy(local.row_dq_df)
                 /\ Logged(<<"write", "row">>)
                 /\ local' = [local EXCEPT !.written = local.row_dq_df]
                 /\ pc' = "return"
                 /\ exc' = exc
              \/ /\ Raise("writer")
                 /\ UNCHANGED <<log, local>>
         ELSE /\ pc' = "return"
              /\ UNCHANGED <<log, exc, local>>
    /\ UNCHANGED <<running, views, wrappers, prev, dq, stats, ctxObjects, self_context, context, run, runContext, cfg,
                   stage, outcome>>

\* mutant of Return: without a row-filtered dataset the producer's dataset
\* is handed back
ReturnInput ==
    /\ pc = "return"
    /\ local' = [local EXCEPT !.ret = IF Truthy(local.row_dq_df)
                                        THEN local.row_dq_df ELSE local.df]
    /\ pc' = "returned"
    /\ UNCHANGED <<running, views, wrappers, prev, dq, stats, ctxObjects, self_context, context, run, runContext, cfg,
                   stage, outcome, log, exc>>

\* self.spark.catalog.clearCache(); return _row_dq_df
Return ==
    /\ pc = "return"
    /\ local' = [local EXCEPT !.ret = local.row_dq_df]
    /\ pc' = "returned"
    /\ UNCHANGED <<running, views, wrappers, prev, dq, stats, ctxObjects, self_context, context, run, runContext, cfg,
                   stage, outcome, log, exc>>

\* the run status the statistics decorator leaves once the wrapper is left
FinalRunStatus(ctx, raised) ==
    IF raised \/ \E s \in Stages : ctx.status[s] = "Failed"
      THEN "Failed" ELSE "Passed"

\* the columns of the stats table that hold values of the context
StatsColumns ==
    {"input_count", "error_count", "output_count", "output_percentage",
     "success_percentage", "error_percentage", "source_agg_dq_results",
     "final_agg_dq_results", "source_query_dq_results",
     "final_query_dq_results", "dq_status"}

\* to_json(struct(*)): the columns of a row with their values
ToJson(row) == {<<c, row[c]>> : c \in StatsColumns}

\* the row write_error_stats() appends to the stats table: counts,
\* percentages, result collections and statuses as the context's getters
\* give them; rows is the number of rows the call appends, topic the
\* messages it publishes to the streaming topic
StatsRecord(ctx) ==
    LET row ==
    [written            |-> TRUE,
     rows               |-> 1,
     source_agg_dq_results   |-> ctx.result["source_agg"],
     final_agg_dq_results    |-> ctx.result["final_agg"],
     source_query_dq_results |-> ctx.result["source_query"],
     final_query_dq_results  |-> ctx.result["final_query"],
     input_count        |-> ctx.input_count,
     error_count        |-> ctx.error_count,
     output_count       |-> ctx.output_count,
     output_percentage  |-> OutputPercentage(ctx),
     success_percentage |-> SuccessPercentage(ctx),
     error_percentage   |-> ErrorPercentage(ctx),
     dq_status          |-> [s \in Stages \cup {"run_status"} |->
                               IF s = "run_status" THEN ctx.dq_run_status
                                                   ELSE ctx.status[s]]]
    IN  row @@ [topic |-> <<ToJson(row)>>]

\* write_error_stats(): with input_count = 0 the percentages cannot be
\* computed and no row is written
WriteErrorStats(ctx) ==
    IF ctx.input_count > 0 THEN StatsRecord(ctx) ELSE NoStats

\* mutant of CollectStats: the row is written before the run status is set
CollectStatsBeforeRunStatus ==
    /\ pc \in {"returned", "raised"}
    /\ context' = [context EXCEPT
                     !.dq_run_status = FinalRunStatus(context, pc = "raised")]
    /\ stats' = WriteErrorStats(context)
    /\ pc' = "done"
    /\ UNCHANGED <<running, views, wrappers, prev, dq, ctxObjects, self_context, run, runContext, cfg, stage,
                   local, outcome, log, exc>>

\* collect_stats_decorator, after the wrapper returned or raised: the run
\* status is set, then write_error_stats() is called
CollectStats ==
    /\ pc \in {"returned", "raised"}
    /\ context' = [context EXCEPT
                     !.dq_run_status = FinalRunStatus(context, pc = "raised")]
    /\ stats' = WriteErrorStats(context')
    /\ pc' = "done"
    /\ UNCHANGED <<running, views, wrappers, prev, dq, ctxObjects, self_context, run, runContext, cfg, stage,
                   local, outcome, log, exc>>

\* ---------------------------------------------------------- specification
\* one run of a wrapper on a newly constructed instance
Init == InitWith(Configs)

Next ==
    \/ Call
    \/ Produce
    \/ ProduceRaises
    \/ Reset
    \/ IsInstance
    \/ TempTable
    \/ StageSkip
    \/ StageMark
    \/ StageStart
    \/ CheckView
    \/ EvalAgg
    \/ EvalRow
    \/ RowErrorCount
    \/ RowView
    \/ RowOutputCount
    \/ StageSetStatus
    \/ StageEnd
    \/ RowThreshold
    \/ WriteToTable
    \/ Return
    \/ CollectStats

Spec == Init /\ [][Next]_vars

\* the wrapper body is straight-line code run by one thread: as long as a
\* statement is left to run, one is run (every collaborator call returns or
\* raises)
SpecFair == Spec /\ WF_vars(Next)

\* ------------------------------------------ several decorations, one instance
\* the decorations of SpecDecor: every sub-flag on, the three master switches
\* row_dq, agg_dq and query_dq free, the target table written
DecorConfigs ==
    {c \in Configs :
        /\ c.write_to_table
        /\ \A f \in FlagNames \ {"row_dq", "agg_dq", "query_dq"} : c.flags[f]}

\* the wrapper is called once more
CallAgain ==
    /\ pc = "done"
    /\ run < MaxRuns
    /\ Invoke

\* with_expectations(...)(func) once more on the instance, between two runs:
\* the next call goes to the new wrapper, whose closure holds other settings;
\* the frame of the finished call is gone
Decorate ==
    /\ pc = "done"
    /\ run < MaxRuns
    /\ \E c \in DecorConfigs :
          /\ cfg' = c
          /\ wrappers' = <<c>>
          /\ context' = SetAtDecoration(context, c)
    /\ pc' = "idle"
    /\ stage' = 0
    /\ local' = NoLocals
    /\ outcome' = NoOutcome
    /\ log' = <<>>
    /\ exc' = NoExc
    /\ UNCHANGED <<running, views, prev, dq, stats, ctxObjects, self_context,
                   run, runContext>>

\* up to MaxRuns runs on one instance, through one or several decorations
InitDecor == InitWith(DecorConfigs)

NextDecor == Next \/ CallAgain \/ Decorate

SpecDecor == InitDecor /\ [][NextDecor]_vars

\* ----------------------------------------------- the same wrapper called again
\* the wrapper is called once more; what the finished run was given and
\* what it left in the context is remembered
CallSame ==
    /\ pc = "done"
    /\ run < MaxRuns
    /\ prev' = [taken |-> TRUE,
                df |-> local.df,
                outcome |-> outcome,
                error_count |-> local.error_count,
                row_dq_df |-> local.row_dq_df,
                summarised_row_dq_res |-> context.summarised_row_dq_res,
                rules_exceeds_threshold |-> context.rules_exceeds_threshold]
    /\ run' = run + 1
    /\ runContext' = Append(runContext, self_context)
    /\ pc' = "func"
    /\ stage' = 0
    /\ local' = NoLocals
    /\ outcome' = NoOutcome
    /\ log' = <<>>
    /\ exc' = NoExc
    /\ stats' = NoStats
    /\ UNCHANGED <<running, views, wrappers, dq, ctxObjects, self_context, context, cfg>>

\* the settings of the wrapper that is called again: the row stage and the
\* final query stage, the result written to the target table
TwiceConfigs ==
    {c \in Configs :
        /\ c.write_to_table
        /\ \A f \in FlagNames :
              c.flags[f] <=> f \in {"row_dq", "query_dq", "target_query_dq"}}

InitTwice == InitWith(TwiceConfigs)

NextTwice == Next \/ CallSame

\* up to MaxRuns runs of one wrapper on one instance
SpecTwice == InitTwice /\ [][NextTwice]_vars

\* ------------------------------------------------ datasets through the stages
\* the decorations of SpecFlow: every stage enabled, or every stage but
\* source_query; the target table written; the temp table and the
\* target_table_view argument free
FlowConfigs ==
    {WithView(c, v) :
        c \in {d \in AllConfigs :
                  /\ d.write_to_table
                  /\ ~d.notification_on_breach
                  /\ d.conf_threshold = AbsentValue
                  /\ \A f \in FlagNames \ {"source_query_dq"} : d.flags[f]},
        v \in TargetTableViews}

InitFlow == InitWith(FlowConfigs)

\* one run of a wrapper with all stages, with and without the temp table
SpecFlow == InitFlow /\ [][Next]_vars

\* ------------------------------------- several wrappers of one instance
\* the decoration c with on_start and on_completion set to n and on_fail
\* to its opposite in spark_conf, and with self.stats_streaming_options
\* given iff n
WithNotifications(c, n) ==
    LET given == {"se_notifications_on_start",
                  "se_notifications_on_completion",
                  "se_notifications_on_fail"}
        conf == [k \in given \cup DOMAIN c.spark_conf |->
                   IF k = "se_notifications_on_fail" THEN BoolValue(~n)
                   ELSE IF k \in given THEN BoolValue(n)
                   ELSE c.spark_conf[k]]
        d == WithSparkConf(c, conf)
    IN  [d EXCEPT !.se_streaming_stats_dict =
                     IF n THEN "options" ELSE "default"]

\* the decorations of SpecClosures: the row stage, with or without the two
\* final stages; the breach notification off, or on with a threshold of 50;
\* with the final stages, the notification flags and the streaming options
\* at their defaults, without them all of them changed
ClosureConfigs ==
    {WithNotifications(c, ~c.flags["target_agg_dq"]) :
        c \in {d \in AllConfigs :
                  /\ d.write_to_table
                  /\ ~d.write_to_temp_table
                  /\ d.flags["row_dq"]
                  /\ ~d.flags["source_agg_dq"] /\ ~d.flags["source_query_dq"]
                  /\ d.flags["agg_dq"] /\ d.flags["query_dq"]
                  /\ d.flags["target_agg_dq"] = d.flags["target_query_dq"]
                  /\ IF d.notification_on_breach
                       THEN d.conf_threshold = IntValue(50)
                       ELSE d.conf_threshold = AbsentValue}}

\* mutant of Closure: a wrapper reads the settings of the latest decoration
ClosureOfLatest(ws, w) == ws[Len(ws)]

\* the closure variables of the w-th wrapper: those its decoration computed
Closure(ws, w) == ws[w]

\* with_expectations(...)(func) once more on the instance, the wrappers made
\* before staying callable: _except computes the settings, writes the
\* notification flags and the streaming options to the context and returns
\* the new wrapper
DecorateMore ==
    /\ pc \in {"idle", "done"}
    /\ Len(wrappers) + run <= MaxRuns
    /\ \E c \in ClosureConfigs :
          /\ wrappers' = Append(wrappers, c)
          /\ context' = SetAtDecoration(context, c)
    /\ UNCHANGED <<running, views, prev, dq, stats, ctxObjects, self_context,
                   run, runContext, cfg, pc, stage, local, outcome, log, exc>>

\* one of the wrappers of the instance is called
CallWrapper ==
    /\ pc \in {"idle", "done"}
    /\ Len(wrappers) + run <= MaxRuns
    /\ \E w \in 1..Len(wrappers) :
          /\ running' = w
          /\ cfg' = Closure(wrappers, w)
    /\ run' = run + 1
    /\ runContext' = Append(runContext, self_context)
    /\ pc' = "func"
    /\ stage' = 0
    /\ local' = NoLocals
    /\ outcome' = NoOutcome
    /\ log' = <<>>
    /\ exc' = NoExc
    /\ stats' = NoStats
    /\ UNCHANGED <<views, wrappers, prev, dq, ctxObjects, self_context,
                   context>>

InitClosures == InitWith(ClosureConfigs)

NextClosures == Next \/ DecorateMore \/ CallWrapper

\* decorations and calls of the wrappers they made, in any order, up to
\* MaxRuns of them after the first decoration
SpecClosures == InitClosures /\ [][NextClosures]_vars

\* ------------------------------------------- the notification flags resolved
\* the decorations of SpecResolve: the row stage and the two final stages,
\* the target table written, every spark_conf of SparkConfs
ResolveConfigs ==
    {WithSparkConf(c, conf) :
        c \in {d \in Configs :
                  /\ d.write_to_table
                  /\ \A f \in FlagNames :
                        d.flags[f] <=> f \notin {"source_agg_dq",
                                                 "source_query_dq"}},
        conf \in SparkConfs}

InitResolve == InitWith(ResolveConfigs)

\* one run of a wrapper decorated with any spark_conf
SpecResolve == InitResolve /\ [][Next]_vars

\* ------------------------------------------- notification on threshold breach
\* the decorations of SpecNotify: the row stage, the two final stages and the
\* target-table write on, the two source stages off; the temp table, the
\* breach notification and the threshold supplied in spark_conf free
NotifyConfigs ==
    {c \in AllConfigs :
        /\ c.write_to_table
        /\ \A f \in FlagNames :
              c.flags[f] <=> f \notin {"source_agg_dq", "source_query_dq"}}

InitNotify == InitWith(NotifyConfigs)

\* one run of a wrapper decorated with notification settings
SpecNotify == InitNotify /\ [][Next]_vars

\* ----------------------------------------------------- the statistics record
\* largest input_count of a context handed to write_error_stats
MaxCount == 6

\* a decoration with every stage and the write off
QuietConfig ==
    CHOOSE c \in Configs : ~c.write_to_table /\ \A f \in FlagNames : ~c.flags[f]

\* contexts as a finished run may leave them: counts, and the statuses the
\* stages may have reported
CountedContexts ==
    {[NewContext EXCEPT !.input_count = n, !.error_count = e,
                        !.output_count = o, !.status["row"] = st] :
        n \in 0..MaxCount, e \in 0..MaxCount, o \in 0..MaxCount,
        st \in {"Passed", "Failed", "Skipped"}}

\* the wrapper has just returned or raised, leaving one of these contexts
InitStats ==
    /\ ctxObjects = 1
    /\ self_context = 1
    /\ context \in {c \in CountedContexts : /\ c.error_count <= c.input_count
                                            /\ c.output_count <= c.input_count}
    /\ run = 1
    /\ runContext = <<1>>
    /\ cfg = QuietConfig
    /\ wrappers = <<cfg>>
    /\ running = 1
    /\ views = NoViews
    /\ \/ pc = "returned" /\ exc = NoExc
       \/ pc = "raised" /\ exc = [class |-> MiscException, cause |-> "producer"]
    /\ stage = 0
    /\ local = NoLocals
    /\ outcome = NoOutcome
    /\ log = <<>>
    /\ stats = NoStats
    /\ prev = NoPrev
    /\ dq = NoDq

NextStats == CollectStats

\* the statistics decorator on every such context
SpecStats == InitStats /\ [][NextStats]_vars

\* ------------------------------------------------------ row-level evaluation
\* most rules in a row rule list
MaxRules == 2
\* most records in a dataset that is enumerated record by record
MaxRecords == 2

\* action_if_failed
Actions == {"ignore", "drop", "fail"}

\* rule lists: up to MaxRules rules with distinct names, in any order
RuleLists ==
    UNION {{r \in [1..k -> [rule : 1..MaxRules, action_if_failed : Actions]] :
              \A i, j \in 1..k : i # j => r[i].rule # r[j].rule} :
           k \in 0..MaxRules}

RuleNames(rules) == {rules[i].rule : i \in DOMAIN rules}

\* n consecutive records of a dataset that fail exactly the rules in F
Block(F, n) == [failed |-> F, n |-> n]

\* datasets of up to MaxRecords records, each failing some of the rules
SmallDatasets(rules) ==
    UNION {[1..k -> {Block(F, 1) : F \in SUBSET RuleNames(rules)}] :
           k \in 0..MaxRecords}

\* a drop rule and an ignore rule, in this order
ScenarioRules ==
    <<[rule |-> 1, action_if_failed |-> "drop"],
      [rule |-> 2, action_if_failed |-> "ignore"]>>

\* 100 records of which 10 fail rule 1 and 5 fail rule 2, k of them both
ScenarioBlocks(k) ==
    {b \in {Block({1}, 10 - k), Block({1, 2}, k), Block({2}, 5 - k),
            Block({}, 85 + k)} : b.n > 0}

\* the same records in every order of the blocks, for every overlap
ScenarioDatasets ==
    UNION {{d \in [1..Cardinality(ScenarioBlocks(k)) -> ScenarioBlocks(k)] :
              \A i, j \in DOMAIN d : i # j => d[i] # d[j]} :
           k \in 0..5}

\* resolve(action_if_failed, record_failed)
Resolve(action, failed) ==
    CASE action = "ignore" -> "keep"
      [] action = "drop"   -> IF failed THEN "drop" ELSE "keep"
      [] action = "fail"   -> IF failed THEN "abort" ELSE "keep"

\* abort > drop > keep
Severity(o) == CASE o = "keep" -> 0 [] o = "drop" -> 1 [] o = "abort" -> 2

MoreSevere(a, b) == IF Severity(b) > Severity(a) THEN b ELSE a

RECURSIVE DispositionFrom(_, _, _, _)
\* the rules from the i-th on are resolved in list order, the most severe
\* outcome so far being acc
DispositionFrom(rules, F, i, acc) ==
    IF i > Len(rules) THEN acc
    ELSE DispositionFrom(rules, F, i + 1,
             MoreSevere(acc, Resolve(rules[i].action_if_failed,
                                     rules[i].rule \in F)))

\* mutant of Disposition: the last rule that acts on the record decides
DispositionLastWins(rules, F) ==
    LET acting == {i \in DOMAIN rules :
                     Resolve(rules[i].action_if_failed, rules[i].rule \in F)
                        # "keep"}
        last == CHOOSE i \in acting : \A j \in acting : j <= i
    IN  IF acting = {} THEN "keep"
        ELSE Resolve(rules[last].action_if_failed, TRUE)

\* disposition of a record that fails the rules in F
Disposition(rules, F) == DispositionFrom(rules, F, 1, "keep")

RECURSIVE RecordsIn(_, _)
\* number of records in the blocks of df with index in S
RecordsIn(df, S) ==
    IF S = {} THEN 0
    ELSE LET i == CHOOSE j \in S : TRUE
         IN  df[i].n + RecordsIn(df, S \ {i})

\* _df.count()
InputCount(df) == RecordsIn(df, DOMAIN df)

\* mutant of ErrorCount: every failure counts, not every failing record
ErrorCountPerFailure(rules, df) ==
    RecordsIn(df, {i \in DOMAIN df : df[i].failed # {}})
    + RecordsIn(df, {i \in DOMAIN df : Cardinality(df[i].failed) > 1})

\* write_error_records_final: the records whose meta_row_dq_results is not
\* empty
ErrorCount(rules, df) ==
    RecordsIn(df, {i \in DOMAIN df : df[i].failed # {}})

\* mutant of Dropped: a record that fails any rule is excluded
DroppedOnAnyFailure(rules, F) == F # {}

\* the record fails a rule whose action is drop and is excluded
Dropped(rules, F) ==
    \E i \in DOMAIN rules :
        Resolve(rules[i].action_if_failed, rules[i].rule \in F) = "drop"

\* number of records in the dataset the row evaluation hands back
OutputCount(rules, df) ==
    RecordsIn(df, {i \in DOMAIN df : ~Dropped(rules, df[i].failed)})

\* number of records that fail rule r
FailedRowCount(df, r) == RecordsIn(df, {i \in DOMAIN df : r \in df[i].failed})

\* the rule at position k of the list occurs in a record no later than the
\* rule at position m: in an earlier record, or in the same one and earlier
\* in the list
OccursBefore(rules, df, k, m) ==
    LET first(x) == CHOOSE i \in DOMAIN df :
                       /\ rules[x].rule \in df[i].failed
                       /\ \A j \in 1..(i - 1) : rules[x].rule \notin df[j].failed
    IN  first(k) < first(m) \/ (first(k) = first(m) /\ k < m)

\* generate_summarised_row_dq_res: one entry per rule that some record
\* fails, in order of first occurrence
Summarised(rules, df) ==
    LET occ == {k \in DOMAIN rules : FailedRowCount(df, rules[k].rule) > 0}
        at(p) == CHOOSE k \in occ :
                    Cardinality({m \in occ : OccursBefore(rules, df, m, k)})
                        = p - 1
    IN  [p \in 1..Cardinality(occ) |->
            [rule |-> rules[at(p)].rule,
             failed_row_count |-> FailedRowCount(df, rules[at(p)].rule)]]

\* the status of the row evaluation
RowStatus(rules, df) ==
    IF rules = <<>> THEN "Skipped"
    ELSE IF \E i \in DOMAIN df : Disposition(rules, df[i].failed) = "abort"
      THEN "Failed" ELSE "Passed"

\* what the row evaluation of the rules on the dataset leaves: the counts
\* the wrapper stores, the tally, the status, the disposition of each block
\* of records, and the statistics record of a run with these counts
RowDq(rules, df) ==
    [output_count |-> OutputCount(rules, df),
     error_count  |-> ErrorCount(rules, df),
     summarised_row_dq_res |-> Summarised(rules, df),
     status       |-> RowStatus(rules, df),
     disposition  |-> [i \in DOMAIN df |-> Disposition(rules, df[i].failed)],
     stats        |-> WriteErrorStats(
                        [NewContext EXCEPT
                           !.input_count = InputCount(df),
                           !.error_count = ErrorCount(rules, df),
                           !.output_count = OutputCount(rules, df),
                           !.status["row"] = RowStatus(rules, df)])]

\* a rule list and a dataset are given; nothing has been evaluated
InitRules ==
    /\ ctxObjects = 1
    /\ self_context = 1
    /\ context = NewContext
    /\ run = 0
    /\ runContext = <<>>
    /\ cfg = QuietConfig
    /\ wrappers = <<cfg>>
    /\ running = 1
    /\ views = NoViews
    /\ pc = "idle"
    /\ stage = 0
    /\ local = NoLocals
    /\ outcome = NoOutcome
    /\ log = <<>>
    /\ exc = NoExc
    /\ stats = NoStats
    /\ prev = NoPrev
    /\ \E r \in RuleLists :
         \E d \in SmallDatasets(r) \cup
                   (IF r = ScenarioRules THEN ScenarioDatasets ELSE {}) :
            dq = [rules |-> r, df |-> d, done |-> FALSE]

\* the row rules are evaluated on the dataset
RunRowDq ==
    /\ ~dq.done
    /\ dq.rules \in RuleLists
    /\ dq' = [rules |-> dq.rules, df |-> dq.df, done |-> TRUE,
              out |-> RowDq(dq.rules, dq.df)]
    /\ UNCHANGED <<running, views, wrappers, ctxObjects, self_context, context, run,
                   runContext, cfg,
                   pc, stage, local, outcome, log, exc, stats, prev>>

NextRules == RunRowDq

\* the row evaluation on every rule list and dataset
SpecRules == InitRules /\ [][NextRules]_vars

\* ------------------------------------------------------ the writer's operations
SparkExpectationsUserInputOrConfigInvalidException ==
    "SparkExpectationsUserInputOrConfigInvalidException"

\* error_drop_threshold of a rule, in percent
AlertThresholds == {10, 60}

\* input_count and failed_row_count of test_generate_rules_exceeds_threshold
TestInputCount == 100

TestFailedCounts == {10, 20}

\* input_count of a call: up to one record more than a dataset enumerated
\* record by record holds, and the test's
InputCounts == (1..(MaxRecords + 1)) \cup {TestInputCount}

FailedCounts(n) == {f \in (1..MaxRecords) \cup TestFailedCounts : f <= n}

\* the action of the rule with a given name
ActionOf(name) ==
    CASE name % 3 = 1 -> "drop" [] name % 3 = 2 -> "ignore" [] OTHER -> "fail"

\* an entry of dq_rules["row_dq_rules"]
AlertRule(name, alert, threshold) ==
    [rule |-> name,
     enable_error_drop_alert |-> alert,
     action_if_failed |-> ActionOf(name),
     description |-> name,
     rule_type |-> "row_dq",
     error_drop_threshold |-> threshold]

\* row rule lists: up to MaxRules rules with distinct names, in any order
AlertRuleLists ==
    LET each == {AlertRule(n, a, t) :
                    n \in 1..MaxRules, a \in BOOLEAN, t \in AlertThresholds}
    IN  UNION {{r \in [1..k -> each] :
                  \A i, j \in 1..k : i # j => r[i].rule # r[j].rule} :
               k \in 0..MaxRules}

\* the p-th smallest element of a set of numbers
Nth(N, p) == CHOOSE x \in N : Cardinality({y \in N : y < x}) = p - 1

\* summarised row results of a run with n input records: for some of the
\* rules, the number of records that failed it
Tallies(n) ==
    UNION {{[p \in 1..Cardinality(N) |->
                [rule |-> Nth(N, p), failed_row_count |-> f[Nth(N, p)]]] :
              f \in [N -> FailedCounts(n)]} :
           N \in SUBSET (1..MaxRules)}

\* mutant of ErrorDropPercentage: the digits after the first decimal are cut
ErrorDropPercentageTruncated(failed, input) == (failed * 1000) \div input

\* round(failed_row_count / input_count * 100, 1), in tenths of a percent
ErrorDropPercentage(failed, input) ==
    (2 * failed * 1000 + input) \div (2 * input)

\* failed_row_count of a rule in the summarised row result
FailedRowCountOf(summarised, name) ==
    LET i == CHOOSE j \in DOMAIN summarised : summarised[j].rule = name
    IN  summarised[i].failed_row_count

\* mutant of Included: only a rule at or above its threshold is listed
IncludedAtOrAboveThreshold(r, summarised, input_count) ==
    /\ r.enable_error_drop_alert
    /\ \E j \in DOMAIN summarised : summarised[j].rule = r.rule
    /\ ErrorDropPercentage(FailedRowCountOf(summarised, r.rule), input_count)
          >= 10 * r.error_drop_threshold

\* the rule is listed: its alert is enabled and the summarised row result
\* has a failed_row_count for it
Included(r, summarised, input_count) ==
    /\ r.enable_error_drop_alert
    /\ \E j \in DOMAIN summarised : summarised[j].rule = r.rule

\* generate_rules_exceeds_threshold(rules): what it raises and what the
\* context's rules_exceeds_threshold holds afterwards
GenerateRulesExceedsThreshold(rules, summarised, input_count) ==
    IF ~summarised.present
      THEN [raised |-> "none", rules_exceeds_threshold |-> None]
    ELSE IF ~rules.present
      THEN [raised |-> MiscException, rules_exceeds_threshold |-> None]
    ELSE
      LET listed(r) == Included(r, summarised.val, input_count)
          kept == SelectSeq(rules.val, listed)
      IN  [raised |-> "none",
           rules_exceeds_threshold |-> Some(
             [p \in DOMAIN kept |->
                [rule_name |-> kept[p].rule,
                 action_if_failed |-> kept[p].action_if_failed,
                 description |-> kept[p].description,
                 rule_type |-> kept[p].rule_type,
                 error_drop_threshold |-> kept[p].error_drop_threshold,
                 error_drop_percentage |->
                    ErrorDropPercentage(
                        FailedRowCountOf(summarised.val, kept[p].rule),
                        input_count)]])]

\* mutant of GenerateSummarisedRowDqRes: every rule of the list has an entry
GenerateSummarisedRowDqResAllRules(rules, df, has_column) ==
    IF ~has_column
      THEN [raised |-> MiscException, summarised_row_dq_res |-> None]
      ELSE [raised |-> "none",
            summarised_row_dq_res |-> Some(
              [p \in DOMAIN rules |->
                 [rule |-> rules[p].rule,
                  failed_row_count |-> FailedRowCount(df, rules[p].rule)]])]

\* generate_summarised_row_dq_res(df, rule_type): what it raises and what
\* the context's summarised_row_dq_res holds afterwards; has_column tells
\* whether the dataset has the column meta_row_dq_results
GenerateSummarisedRowDqRes(rules, df, has_column) ==
    IF ~has_column
      THEN [raised |-> MiscException, summarised_row_dq_res |-> None]
      ELSE [raised |-> "none",
            summarised_row_dq_res |-> Some(Summarised(rules, df))]

\* save_df_as_table(df, table, spark_conf, options); write_ok tells whether
\* the underlying write succeeds
SaveDfAsTable(df, write_ok) ==
    IF write_ok
      THEN [raised |-> "none", tables |-> <<df>>]
      ELSE [raised |-> SparkExpectationsUserInputOrConfigInvalidException,
            tables |-> <<>>]

\* mutant of WriteDfToTable: the error of save_df_as_table passes through
WriteDfToTablePropagates(df, write_ok) == SaveDfAsTable(df, write_ok)

\* write_df_to_table(df, table, spark_conf, options)
WriteDfToTable(df, write_ok) ==
    LET save == SaveDfAsTable(df, write_ok)
    IN  IF save.raised = "none" THEN save
        ELSE [save EXCEPT !.raised = MiscException]

\* meta_row_dq_results of a record that fails the rules in F: the non-empty
\* results among its per-rule columns, in the order of the rules
MetaRowDqResults(rules, F) ==
    LET nonempty(r) == r.rule \in F
        kept == SelectSeq(rules, nonempty)
    IN  [p \in DOMAIN kept |-> kept[p].rule]

\* mutant of WriteErrorRecordsFinal: the dataset handed back is the error
\* dataset
WriteErrorRecordsFinalOnlyErrors(rules, df, write_ok) ==
    LET all == [i \in DOMAIN df |->
                  [n |-> df[i].n,
                   meta_row_dq_results |->
                      MetaRowDqResults(rules, df[i].failed)]]
        failing(rec) == rec.meta_row_dq_results # <<>>
        errors == SelectSeq(all, failing)
        save == SaveDfAsTable(errors, write_ok)
    IN  IF save.raised # "none"
          THEN [raised |-> MiscException, saved |-> <<>>]
          ELSE [raised |-> "none",
                error_count |-> ErrorCount(rules, df),
                df |-> errors,
                saved |-> save.tables]

\* write_error_records_final(df, error_table, rule_type): the per-rule
\* columns are folded into meta_row_dq_results, the records where it is not
\* empty are saved to the error table, and the count of these and the
\* dataset with every record are handed back
WriteErrorRecordsFinal(rules, df, write_ok) ==
    LET all == [i \in DOMAIN df |->
                  [n |-> df[i].n,
                   meta_row_dq_results |->
                      MetaRowDqResults(rules, df[i].failed)]]
        failing(rec) == rec.meta_row_dq_results # <<>>
        errors == SelectSeq(all, failing)
        save == SaveDfAsTable(errors, write_ok)
    IN  IF save.raised # "none"
          THEN [raised |-> MiscException, saved |-> <<>>]
          ELSE [raised |-> "none",
                error_count |-> ErrorCount(rules, df),
                df |-> all,
                saved |-> save.tables]

\* write_error_stats() as a call of its own: the row, or the error of the
\* write
WriteErrorStatsOrRaise(ctx, write_ok) ==
    IF write_ok THEN [raised |-> "none", stats |-> WriteErrorStats(ctx)]
    ELSE [raised |-> MiscException, stats |-> NoStats]

\* rule lists whose rules have the action that goes with their name
NamedRuleLists ==
    {r \in RuleLists :
        \A i \in DOMAIN r : r[i].action_if_failed = ActionOf(r[i].rule)}

\* the four records of fixture_dq_dataset: the first fails rule 1, the
\* second none, the third both, the fourth rule 2
FixtureRules ==
    <<[rule |-> 1, action_if_failed |-> ActionOf(1)],
      [rule |-> 2, action_if_failed |-> ActionOf(2)]>>

FixtureDqDataset ==
    <<Block({1}, 1), Block({}, 1), Block({1, 2}, 1), Block({2}, 1)>>

\* no result yet
NoOut == [raised |-> "none"]

\* the contexts handed to write_error_stats when it is called on its own
SmallContexts ==
    {x \in CountedContexts : /\ x.error_count <= x.input_count
                             /\ x.output_count <= x.input_count
                             /\ x.input_count <= MaxRows}

\* a call of the writer is given; nothing has been done
InitWriter ==
    /\ ctxObjects = 1
    /\ self_context = 1
    /\ context = NewContext
    /\ run = 0
    /\ runContext = <<>>
    /\ cfg = QuietConfig
    /\ wrappers = <<cfg>>
    /\ running = 1
    /\ views = NoViews
    /\ pc = "idle"
    /\ stage = 0
    /\ local = NoLocals
    /\ outcome = NoOutcome
    /\ log = <<>>
    /\ exc = NoExc
    /\ stats = NoStats
    /\ prev = NoPrev
    /\ \/ \E o \in {"generate_summarised_row_dq_res",
                    "write_error_records_final"} :
            \E r \in NamedRuleLists, b \in BOOLEAN :
               \E d \in SmallDatasets(r) \cup
                        (IF r = FixtureRules THEN {FixtureDqDataset} ELSE {}) :
                  dq = [op |-> o, rules |-> r, df |-> d, flag |-> b,
                        done |-> FALSE, out |-> NoOut]
       \/ \E r \in {None} \cup {Some(x) : x \in AlertRuleLists},
             n \in InputCounts :
            \E sm \in {None} \cup {Some(t) : t \in Tallies(n)} :
               dq = [op |-> "generate_rules_exceeds_threshold", rules |-> r,
                     summarised |-> sm, input_count |-> n,
                     done |-> FALSE, out |-> NoOut]
       \/ \E o \in {"save_df_as_table", "write_df_to_table"},
             k \in 0..MaxRows, b \in BOOLEAN :
            dq = [op |-> o, df |-> DataFrameOf("row", k), flag |-> b,
                  done |-> FALSE, out |-> NoOut]
       \/ \E c \in SmallContexts, b \in BOOLEAN :
            dq = [op |-> "write_error_stats", ctx |-> c, flag |-> b,
                  done |-> FALSE, out |-> NoOut]

\* the call of operation o is made and leaves result r
Called(o, r) ==
    /\ ~dq.done
    /\ dq.op = o
    /\ dq' = [dq EXCEPT !.done = TRUE, !.out = r]
    /\ UNCHANGED <<running, views, wrappers, ctxObjects, self_context, context, run,
                   runContext, cfg,
                   pc, stage, local, outcome, log, exc, stats, prev>>

CallGenerateSummarisedRowDqRes ==
    /\ dq.op = "generate_summarised_row_dq_res"
    /\ Called("generate_summarised_row_dq_res",
              GenerateSummarisedRowDqRes(dq.rules, dq.df, dq.flag))

CallWriteErrorRecordsFinal ==
    /\ dq.op = "write_error_records_final"
    /\ Called("write_error_records_final",
              WriteErrorRecordsFinal(dq.rules, dq.df, dq.flag))

CallGenerateRulesExceedsThreshold ==
    /\ dq.op = "generate_rules_exceeds_threshold"
    /\ Called("generate_rules_exceeds_threshold",
              GenerateRulesExceedsThreshold(dq.rules, dq.summarised,
                                            dq.input_count))

CallSaveDfAsTable ==
    /\ dq.op = "save_df_as_table"
    /\ Called("save_df_as_table", SaveDfAsTable(dq.df, dq.flag))

CallWriteDfToTable ==
    /\ dq.op = "write_df_to_table"
    /\ Called("write_df_to_table", WriteDfToTable(dq.df, dq.flag))

CallWriteErrorStats ==
    /\ dq.op = "write_error_stats"
    /\ Called("write_error_stats", WriteErrorStatsOrRaise(dq.ctx, dq.flag))

NextWriter ==
    \/ CallGenerateSummarisedRowDqRes
    \/ CallWriteErrorRecordsFinal
    \/ CallGenerateRulesExceedsThreshold
    \/ CallSaveDfAsTable
    \/ CallWriteDfToTable
    \/ CallWriteErrorStats

\* every call of the writer under study, once
SpecWriter == InitWriter /\ [][NextWriter]_vars

\* ------------------------------------------------- vocabulary of the claims
\* the evaluator of stage s was invoked in the current run
Evaluated(s) == outcome[s] # "none"

\* event e is in the log of the current run
Happened(e) == \E i \in 1..Len(log) : log[i] = e

\* number of times event e is in the log of the current run
Times(e) == Cardinality({i \in 1..Len(log) : log[i] = e})

\* the run is over: the wrapper returned or raised and the statistics
\* decorator has set the run status
AtEnd == pc = "done"

ReturnedNormally == pc = "done" /\ exc = NoExc

\* control has left the block of stage s without raising inside it
Past(s) == stage > StageIndex(s)

\* a fail-action rule was breached in stage s
FailBreach(s) == outcome[s] = "breach_fail"

\* ------------------------------------------------------------------ claims
\* the run condition of each stage, as the claims state it
ClaimedCondition(s) ==
    LET f == cfg.flags
    IN  CASE s = "source_agg"   -> f["agg_dq"] /\ f["source_agg_dq"]
          [] s = "source_query" -> f["query_dq"] /\ f["source_query_dq"]
          [] s = "row"          -> f["row_dq"]
          [] s = "final_agg"    -> f["row_dq"] /\ f["agg_dq"] /\ f["target_agg_dq"]
          [] s = "final_query"  -> f["row_dq"] /\ f["query_dq"] /\ f["target_query_dq"]

RowAggStages == {"source_agg", "row", "final_agg"}

\* C1: if a row rule or an aggregate rule with action fail is breached in a
\* run, run_status is Failed at the end of that run, whatever the other
\* stages did and whichever stage the breach was in.
C1_FailBreachFailsRun ==
    (AtEnd /\ \E s \in RowAggStages : FailBreach(s))
        => context.dq_run_status = "Failed"

\* a run that returned, with a fail breach in the row stage and a passing
\* aggregate stage before it
C1_Witness ==
    /\ ReturnedNormally
    /\ FailBreach("row")
    /\ outcome["source_agg"] = "pass"
    /\ context.dq_run_status = "Failed"

\* C2: at the end of every run a Failed stage status comes with run_status
\* Failed; and a stage that returned Failed without raising does not keep a
\* later enabled stage from being attempted.
C2_FailedStageFailsRunAndContinues ==
    /\ AtEnd => \A s \in Stages :
           context.status[s] = "Failed" => context.dq_run_status = "Failed"
    /\ \A s, t \in Stages :
           (/\ StageIndex(s) < StageIndex(t)
            /\ FailBreach(s)
            /\ ClaimedCondition(t)
            /\ Past(t))
               => Happened(<<"mark", t>>) /\ Evaluated(t)

\* source_agg returned Failed and the run went on to evaluate the row stage
\* and final_agg
C2_Witness ==
    /\ ReturnedNormally
    /\ FailBreach("source_agg")
    /\ context.status["source_agg"] = "Failed"
    /\ Evaluated("row")
    /\ Evaluated("final_agg")
    /\ context.dq_run_status = "Failed"

\* C3: when a fail-action aggregate rule breaches on the source dataset,
\* source_agg is Failed, run_status is Failed, and the row-filtered dataset
\* of that run is not written to the target table.
C3_NoWriteAfterSourceAggFail ==
    (AtEnd /\ FailBreach("source_agg"))
        => /\ context.status["source_agg"] = "Failed"
           /\ context.dq_run_status = "Failed"
           /\ ~Happened(<<"write", "row">>)

\* the causes of an exception that have nothing to do with a rule breach
OtherCauses ==
    {"producer", "count", DataframeNotReturnedException, "writer",
     "evaluator", "view", "no_view", "percentage"}

\* C4: a breach of a fail-action rule is not an exception: the evaluator of
\* the breached stage has returned, the wrapper goes on to record status
\* Failed for that stage, and an exception in that run, if any, comes from
\* another step; without one the run returns.
C4_FailBreachIsNotAnException ==
    \A s \in Stages : FailBreach(s) =>
        /\ Happened(<<"status", s>>) => context.status[s] = "Failed"
        /\ Past(s) => Happened(<<"status", s>>)
        /\ exc # NoExc =>
              /\ exc.cause \in OtherCauses
              /\ exc.cause = "evaluator" => stage > StageIndex(s)
        /\ (pc = "raised" /\ stage = StageIndex(s)) =>
              (s = "row" /\ exc.cause \in {"view", "count", "percentage"})

\* a run with a fail breach in the row stage that returned the row dataset
C4_Witness ==
    /\ ReturnedNormally
    /\ FailBreach("row")
    /\ context.status["row"] = "Failed"
    /\ Truthy(local.ret)

\* position of event e in the log of the current run (0: not in it)
Pos(e) ==
    LET at == {i \in 1..Len(log) : log[i] = e}
    IN  IF at = {} THEN 0 ELSE CHOOSE i \in at : \A j \in at : i <= j

\* the order of the five stages, as the claims state it
ClaimedOrder ==
    <<"source_agg", "source_query", "row", "final_agg", "final_query">>

\* C5: stages are evaluated in the order source_agg, source_query, row,
\* final_agg, final_query: when the evaluator of a stage is invoked, every
\* earlier stage enabled in this run has been evaluated, has had its status
\* overwritten with its evaluator's outcome and its end timestamp recorded;
\* and no stage is evaluated more than once per run.
C5_FixedOrderOnce ==
    /\ \A s \in Stages : Evaluated(s) =>
         /\ Times(<<"eval", s>>) = 1
         /\ Times(<<"status", s>>) <= 1
         /\ Times(<<"end", s>>) <= 1
    /\ \A s \in Stages : Happened(<<"eval", s>>) => Evaluated(s)
    /\ \A i, j \in 1..5 :
         (i < j /\ Evaluated(ClaimedOrder[j])
                /\ ClaimedCondition(ClaimedOrder[i]))
           => LET s == ClaimedOrder[i]
                  t == ClaimedOrder[j]
              IN  /\ Evaluated(s)
                  /\ Pos(<<"eval", s>>) < Pos(<<"status", s>>)
                  /\ Pos(<<"status", s>>) < Pos(<<"end", s>>)
                  /\ Pos(<<"end", s>>) < Pos(<<"eval", t>>)
                  /\ context.status[s] = EvalStatus(outcome[s])
                  /\ context.end_time[s] = run

\* all five stages evaluated in one run
C5_Witness ==
    /\ \A s \in Stages : Evaluated(s)
    /\ pc = "set_status"
    /\ stage = 5

\* C6: for every combination of the seven flags, a stage is evaluated only
\* if its condition holds, and once control has passed the block of a stage
\* without raising, the stage has been evaluated iff its condition holds.
C6_EvaluatedIffEnabled ==
    \A s \in Stages :
        /\ Evaluated(s) => ClaimedCondition(s)
        /\ Past(s) => (Evaluated(s) <=> ClaimedCondition(s))

\* a run that returned with row_dq and target_agg_dq on but agg_dq off:
\* the row stage was evaluated, final_agg was not
C6_Witness ==
    /\ ReturnedNormally
    /\ cfg.flags["row_dq"] /\ cfg.flags["target_agg_dq"] /\ ~cfg.flags["agg_dq"]
    /\ Evaluated("row")
    /\ ~Evaluated("final_agg")

\* C7: if row_dq is disabled, final_agg and final_query are Skipped at the
\* end of the run, whatever the other flags are and whatever an earlier run
\* on the same instance left in the context.
C7_FinalStagesSkippedWithoutRowDq ==
    (AtEnd /\ ~cfg.flags["row_dq"])
        => /\ context.status["final_agg"] = "Skipped"
           /\ context.status["final_query"] = "Skipped"

\* the fields the claims say the reset puts back, at their defaults
DefaultsHold(ctx) ==
    /\ ctx.dq_run_status = DefaultRunStatus
    /\ \A s \in Stages : ctx.status[s] = DefaultStageStatus
    /\ ctx.error_count = 0
    /\ ctx.output_count = 0
    /\ \A s \in ResultStages : ctx.result[s] = 0
    /\ ctx.summarised_row_dq_res = 0
    /\ ctx.rules_exceeds_threshold = 0
    /\ \A s \in Stages : ctx.start_time[s] = 0 /\ ctx.end_time[s] = 0

\* the reset has run and no stage has started
BeforeFirstStage == pc \in {"isinstance", "temp"} \/ (pc = "guard" /\ stage = 1)

\* C8: before the first stage starts, every run-scoped field of the context
\* holds its default and input_count is this run's count, so that nothing
\* an earlier run wrote is visible.
C8_ResetToDefaults ==
    BeforeFirstStage
        => DefaultsHold(context) /\ context.input_count = local.input_count

\* C9: a fresh context is constructed for every run: no two runs on the
\* instance work on the same context object.
C9_FreshContextPerRun ==
    \A r1, r2 \in DOMAIN runContext :
        r1 # r2 => runContext[r1] # runContext[r2]

\* C9 as amended: the instance constructs one context, in __post_init__,
\* and every run on the instance works on that object.
C9_OneContextPerInstance ==
    /\ ctxObjects = 1
    /\ \A r \in DOMAIN runContext : runContext[r] = self_context

\* a second run is under way on the context the first run left
C9_Witness ==
    /\ Len(runContext) = 2
    /\ runContext[1] = runContext[2]
    /\ pc = "eval"

\* C10: if a stage evaluator raises, the run does not go on: the wrapped
\* call raises SparkExpectationsMiscException for that cause, returns no
\* dataset, and run_status is Failed when the error leaves the wrapper and
\* at the end of the run.
C10_EvaluatorErrorRaises ==
    \A s \in Stages : outcome[s] = "error" =>
        /\ pc \in {"raised", "done"}
        /\ exc = [class |-> MiscException, cause |-> "evaluator"]
        /\ stage = StageIndex(s)
        /\ local.ret = NoneDF
        /\ ~Happened(<<"write", "row">>)
        /\ context.dq_run_status = "Failed"

\* the final_agg evaluator raised after the row stage had produced a dataset
C10_Witness ==
    /\ AtEnd
    /\ outcome["final_agg"] = "error"
    /\ Truthy(local.row_dq_df)
    /\ exc.class = MiscException

\* the producer handed back an object that is not a dataset and the run is over
NotADataFrameRun == local.df = NotADataFrame /\ pc \in {"raised", "done"}

\* C11: when the producer returns something other than a dataset, the caller
\* of the wrapped function sees an error of the data-contract kind, which is
\* not the kind it sees for an evaluation error in a stage, and no stage is
\* evaluated in that run.
C11_DataContractErrorDistinct ==
    NotADataFrameRun
        => /\ exc.class = DataframeNotReturnedException
           /\ exc.class # MiscException
           /\ \A s \in Stages : ~Evaluated(s)

\* C12: when the final query stage is requested and no view of the
\* row-filtered dataset was published, the error is raised before any query
\* evaluation: neither source_query nor final_query has been evaluated.
C12_NoQueryEvaluationBeforeViewError ==
    exc.cause = "no_view"
        => ~Evaluated("source_query") /\ ~Evaluated("final_query")

\* the threshold supplied in the notification configuration is not a number
NonNumericThreshold == cfg.conf_threshold.type # "int"

\* C13: a run-level error-drop-threshold of non-numeric type is a
\* configuration error: no stage executes under such a decoration and the
\* wrapped call does not return normally.
C13_NonNumericThresholdAborts ==
    NonNumericThreshold
        => /\ \A s \in Stages : ~Happened(<<"mark", s>>) /\ ~Evaluated(s)
           /\ ~ReturnedNormally

\* the breach event was handed to the notification collaborator in this run
Signalled == Happened(<<"notify", "row">>)

\* h is num/den*100 rounded to two decimal places, in hundredths
IsRound2(h, num, den) ==
    LET diff == h * den - num * 10000
    IN  2 * (IF diff < 0 THEN -diff ELSE diff) <= den

\* 100 - output_percentage >= error_drop_threshold, for the counts in the
\* context
ClaimedBreach ==
    LET floor == (context.output_count * 10000) \div context.input_count
    IN  \E h \in {floor, floor + 1} :
          /\ IsRound2(h, context.output_count, context.input_count)
          /\ 10000 - h >= 100 * cfg.error_drop_threshold

\* control is past the row stage, which ran on a dataset that is not empty
AfterRowStage ==
    /\ Past("row")
    /\ Evaluated("row")
    /\ context.input_count > 0

\* the step that hands the breach event over changes no status and goes on
\* to the final_agg block
SignalStep ==
    (~Signalled /\ Signalled')
        => /\ context' = context
           /\ exc' = exc
           /\ pc' = "guard"
           /\ stage' = StageIndex("final_agg")

\* what C14 says of each state
C14_State ==
    /\ AfterRowStage => (Signalled <=> (cfg.notification_on_breach /\ ClaimedBreach))
    /\ Times(<<"notify", "row">>) <= 1
    /\ Signalled
         => /\ 0 < Pos(<<"status", "row">>)
            /\ Pos(<<"status", "row">>) < Pos(<<"end", "row">>)
            /\ Pos(<<"end", "row">>) < Pos(<<"notify", "row">>)
            /\ context.status["row"] = EvalStatus(outcome["row"])
    /\ (Signalled /\ Past("final_agg")) => Evaluated("final_agg")
    /\ (Signalled /\ Past("final_query")) => Evaluated("final_query")
    /\ (Signalled /\ ReturnedNormally) => Happened(<<"write", "row">>)

\* C14: after the row stage the breach event is signalled iff breach
\* notifications are enabled and 100 - output_percentage >= the run-level
\* threshold; at most once per run, only after the row status and end time
\* are recorded; signalling changes no status and final_agg, final_query
\* and the write go on.
C14_BreachSignalledIffAndNotFatal == [](C14_State) /\ [][SignalStep]_vars

\* the breach was signalled on equality (everything dropped, threshold 100)
\* and the run went on through both final stages and the write
C14_Witness ==
    /\ Signalled
    /\ ReturnedNormally
    /\ cfg.error_drop_threshold = 100
    /\ Evaluated("final_agg")
    /\ Evaluated("final_query")
    /\ Happened(<<"write", "row">>)

C16_PercentagesRecorded ==
    (AtEnd /\ context.input_count > 0)
        => /\ stats.written
           /\ stats.input_count = context.input_count
           /\ stats.error_count = context.error_count
           /\ stats.output_count = context.output_count
           /\ IsRound2(stats.output_percentage,
                       context.output_count, context.input_count)
           /\ IsRound2(stats.error_percentage,
                       context.error_count, context.input_count)
           /\ IsRound2(stats.success_percentage,
                       context.input_count - context.error_count,
                       context.input_count)
           /\ stats.error_percentage + stats.success_percentage \in 9999..10001

\* a record with thirds: 2 of 3 records in error, 1 of 3 in the output
C16_Witness ==
    /\ AtEnd
    /\ stats.written
    /\ stats.input_count = 3
    /\ stats.error_count = 2
    /\ stats.output_count = 1
    /\ stats.error_percentage = 6667
    /\ stats.success_percentage = 3333

\* C17: the three counts are non-negative and output_count <= input_count,
\* in the context and in the wrapper's locals, in every state of a run.
C17_CountsBounded ==
    /\ context.input_count >= 0
    /\ context.error_count >= 0
    /\ context.output_count >= 0
    /\ context.output_count <= context.input_count
    /\ local.input_count >= 0 /\ local.error_count >= 0
    /\ local.output_count >= 0
    /\ local.output_count <= local.input_count

\* the row stage has set output_count from a dataset it removed nothing from
C17_Witness ==
    /\ Past("row")
    /\ Evaluated("row")
    /\ context.output_count = context.input_count
    /\ context.input_count > 0
    /\ context.error_count > 0

\* every rule of the list under evaluation has action ignore
OnlyIgnore == \A i \in DOMAIN dq.rules : dq.rules[i].action_if_failed = "ignore"

\* C18: when every row rule has action ignore, no record is removed
\* (output_count = N) and error_count is the number of records that fail at
\* least one rule, a record failing several rules being counted once.
C18_IgnoreKeepsAllRecords ==
    (dq.done /\ OnlyIgnore)
        => /\ \A i \in DOMAIN dq.df : dq.df[i].n = 1
           /\ dq.out.output_count = Len(dq.df)
           /\ dq.out.error_count
                = Cardinality({i \in DOMAIN dq.df : dq.df[i].failed # {}})

\* two ignore rules, one record failing both and one failing none
C18_Witness ==
    /\ dq.done
    /\ OnlyIgnore
    /\ Len(dq.rules) = 2
    /\ Len(dq.df) = 2
    /\ \E i, j \in DOMAIN dq.df :
         dq.df[i].failed = {1, 2} /\ dq.df[j].failed = {}
    /\ dq.out.error_count = 1

\* the scenario of C19 has been evaluated
ScenarioDone ==
    /\ dq.done
    /\ dq.rules = ScenarioRules
    /\ dq.df \in ScenarioDatasets

\* number of records that fail both rules
Overlap ==
    IF \E i \in DOMAIN dq.df : dq.df[i].failed = {1, 2}
      THEN (CHOOSE b \in {dq.df[i] : i \in DOMAIN dq.df} : b.failed = {1, 2}).n
      ELSE 0

\* C19: 100 records, drop rule R1 failing on 10, ignore rule R2 failing on
\* 5: for every overlap output_count = 90, error_count = 10, the tally is
\* [{R1,10},{R2,5}] and error_percentage = 10.0.
C19_ScenarioAsStated ==
    ScenarioDone
        => /\ dq.out.output_count = 90
           /\ dq.out.error_count = 10
           /\ dq.out.summarised_row_dq_res
                = <<[rule |-> 1, failed_row_count |-> 10],
                    [rule |-> 2, failed_row_count |-> 5]>>
           /\ dq.out.stats.error_percentage = 1000

\* the first record that fails a rule fails rule 2 only
Rule2OccursFirst ==
    \E i \in DOMAIN dq.df :
        /\ dq.df[i].failed = {2}
        /\ \A j \in 1..(i - 1) : dq.df[j].failed = {}

\* C19 as amended: output_count = 90 for every overlap; error_count is the
\* number of records failing R1 or R2, 15 minus the overlap, and
\* error_percentage is that number of percent; the tally holds {R1,10} and
\* {R2,5} in order of first occurrence.
C19_ScenarioCountsFailingRecords ==
    ScenarioDone
        => /\ dq.out.output_count = 90
           /\ dq.out.error_count = 15 - Overlap
           /\ dq.out.stats.error_percentage = 100 * (15 - Overlap)
           /\ dq.out.summarised_row_dq_res
                = IF Rule2OccursFirst
                    THEN <<[rule |-> 2, failed_row_count |-> 5],
                           [rule |-> 1, failed_row_count |-> 10]>>
                    ELSE <<[rule |-> 1, failed_row_count |-> 10],
                           [rule |-> 2, failed_row_count |-> 5]>>

\* the scenario with two records failing both rules
C19_Witness ==
    /\ ScenarioDone
    /\ Overlap = 2
    /\ dq.out.error_count = 13
    /\ dq.out.output_count = 90

\* the most severe outcome over the rules the record fails, whatever their
\* order: abort if one of them has action fail, else drop if one has
\* action drop, else keep
ClaimedDisposition(rules, F) ==
    LET failedWith(a) == \E i \in DOMAIN rules :
                            rules[i].rule \in F /\ rules[i].action_if_failed = a
    IN  IF failedWith("fail") THEN "abort"
        ELSE IF failedWith("drop") THEN "drop" ELSE "keep"

\* C20: ignore gives keep, drop gives drop if failed else keep, fail gives
\* abort if failed else keep; with several rules the disposition of a
\* record is the most severe outcome under abort > drop > keep, in
\* whatever order the rules are listed.
C20_MostSevereOutcome ==
    dq.done
        => \A i \in DOMAIN dq.df :
              dq.out.disposition[i]
                 = ClaimedDisposition(dq.rules, dq.df[i].failed)

\* a fail rule listed before a drop rule, and a record failing both
C20_Witness ==
    /\ dq.done
    /\ Len(dq.rules) = 2
    /\ dq.rules[1].action_if_failed = "fail"
    /\ dq.rules[2].action_if_failed = "drop"
    /\ \E i \in DOMAIN dq.df :
         dq.df[i].failed = {1, 2} /\ dq.out.disposition[i] = "abort"

\* the current run was given what the run before it was given: the same
\* dataset from the producer and the same doings of the rules in every stage
SameInputs ==
    /\ prev.taken
    /\ local.df = prev.df
    /\ outcome = prev.outcome
    /\ local.error_count = prev.error_count
    /\ local.row_dq_df = prev.row_dq_df

\* two values of a context field, one at the end of the run before and one
\* now, are identical: the same value left by an earlier run, or each
\* written by its own run from the same inputs
SameValue(before, now) == before = now \/ (before = run - 1 /\ now = run)

\* C21: when the same wrapped function is called again on the instance
\* with the same rules and the same dataset, summarised_row_dq_result and
\* rules_exceeds_threshold at the end of the run are identical to those at
\* the end of the run before.
C21_SameRunSameResults ==
    (AtEnd /\ SameInputs)
        => /\ SameValue(prev.summarised_row_dq_res,
                        context.summarised_row_dq_res)
           /\ SameValue(prev.rules_exceeds_threshold,
                        context.rules_exceeds_threshold)

\* records failed in the run before and, the same ones, in this run
C21_Witness ==
    /\ AtEnd
    /\ SameInputs
    /\ local.error_count > 0
    /\ prev.rules_exceeds_threshold = run - 1
    /\ context.rules_exceeds_threshold = run

WriterDid(o) == dq.done /\ dq.op = o

\* the entries of a list that may be None
Entries(x) == IF x.present THEN x.val ELSE <<>>

\* t tenths of a percent is failed / input * 100 rounded to one decimal
IsRound1(t, failed, input) ==
    /\ 2 * (t * input - 1000 * failed) <= input
    /\ 2 * (1000 * failed - t * input) <= input

\* positions in the rule list of the rules with alerts enabled that have a
\* failed_row_count
Alerting(rules, summarised) ==
    {i \in DOMAIN rules :
        /\ rules[i].enable_error_drop_alert
        /\ \E j \in DOMAIN summarised : summarised[j].rule = rules[i].rule}

\* C22: generate_rules_exceeds_threshold, when a summarised row result is
\* present, lists one entry for each row rule with alerts enabled that has
\* a failed_row_count, in rule order, carrying the rule's name, action,
\* description, rule_type, error_drop_threshold and error_drop_percentage =
\* failed_row_count / input_count * 100 to one decimal, whatever the rule's
\* threshold; when the summarised row result is absent,
\* rules_exceeds_threshold stays absent.
C22_ThresholdListContents ==
    (WriterDid("generate_rules_exceeds_threshold") /\ dq.out.raised = "none")
        => IF ~dq.summarised.present
             THEN ~dq.out.rules_exceeds_threshold.present
             ELSE LET rules == dq.rules.val
                      sm == dq.summarised.val
                      e == Entries(dq.out.rules_exceeds_threshold)
                      want == Alerting(rules, sm)
                  IN  /\ Len(e) = Cardinality(want)
                      /\ \A i \in want :
                           LET p == Cardinality({k \in want : k <= i})
                               f == CHOOSE j \in DOMAIN sm :
                                       sm[j].rule = rules[i].rule
                           IN  /\ e[p].rule_name = rules[i].rule
                               /\ e[p].action_if_failed
                                     = rules[i].action_if_failed
                               /\ e[p].description = rules[i].description
                               /\ e[p].rule_type = rules[i].rule_type
                               /\ e[p].error_drop_threshold
                                     = rules[i].error_drop_threshold
                               /\ IsRound1(e[p].error_drop_percentage,
                                           sm[f].failed_row_count,
                                           dq.input_count)

\* two rules listed in rule order, which is not the order of the summarised
\* row result; 2 of 3 records failed the first: 66.7 percent
C22_Witness ==
    /\ WriterDid("generate_rules_exceeds_threshold")
    /\ dq.summarised.present
    /\ dq.out.rules_exceeds_threshold.present
    /\ dq.input_count = 3
    /\ Len(dq.out.rules_exceeds_threshold.val) = 2
    /\ dq.out.rules_exceeds_threshold.val[1].rule_name = 2
    /\ dq.out.rules_exceeds_threshold.val[1].error_drop_percentage = 667
    /\ dq.out.rules_exceeds_threshold.val[2].rule_name = 1

\* C23 as stated: rules_exceeds_threshold never contains a rule whose
\* error_drop_percentage is below the rule's error_drop_threshold.
C23_NeverBelowThreshold ==
    WriterDid("generate_rules_exceeds_threshold")
        => \A p \in DOMAIN Entries(dq.out.rules_exceeds_threshold) :
              LET e == Entries(dq.out.rules_exceeds_threshold)[p]
              IN  e.error_drop_percentage >= 10 * e.error_drop_threshold

\* C23: rules_exceeds_threshold holds the row rules with alerts enabled
\* that have a failed_row_count, and no other rule; a rule is listed also
\* when its error_drop_percentage is below its error_drop_threshold.
C23_ListedWhateverTheThreshold ==
    (WriterDid("generate_rules_exceeds_threshold") /\ dq.out.raised = "none"
        /\ dq.summarised.present)
        => LET rules == dq.rules.val
               e == Entries(dq.out.rules_exceeds_threshold)
           IN  \A i \in DOMAIN rules :
                  (\E p \in DOMAIN e : e[p].rule_name = rules[i].rule)
                     <=> i \in Alerting(rules, dq.summarised.val)

\* 1 of 100 records failed a rule whose threshold is 10 percent, and the
\* rule is listed with 1.0 percent
C23_Witness ==
    /\ WriterDid("generate_rules_exceeds_threshold")
    /\ dq.input_count = TestInputCount
    /\ \E p \in DOMAIN Entries(dq.out.rules_exceeds_threshold) :
          LET e == Entries(dq.out.rules_exceeds_threshold)[p]
          IN  e.error_drop_percentage = 10 /\ e.error_drop_threshold = 10

\* records of the dataset whose meta_row_dq_results holds the rule
RecordsFailing(df, name) == {i \in DOMAIN df : name \in df[i].failed}

\* C24: generate_summarised_row_dq_res stores one entry per rule that
\* occurs in the meta_row_dq_results of at least one record, whose
\* failed_row_count is the number of records that hold the rule; a rule
\* that no record failed has no entry; a dataset without the column
\* meta_row_dq_results makes it raise SparkExpectationsMiscException and
\* leaves no result.
C24_OneEntryPerFailedRule ==
    WriterDid("generate_summarised_row_dq_res")
        => IF ~dq.flag
             THEN /\ dq.out.raised = MiscException
                  /\ ~dq.out.summarised_row_dq_res.present
             ELSE LET e == Entries(dq.out.summarised_row_dq_res)
                  IN  /\ dq.out.raised = "none"
                      /\ dq.out.summarised_row_dq_res.present
                      /\ \A p \in DOMAIN e : e[p].rule \in RuleNames(dq.rules)
                      /\ \A name \in RuleNames(dq.rules) :
                           LET at == {p \in DOMAIN e : e[p].rule = name}
                               cnt == Cardinality(RecordsFailing(dq.df, name))
                           IN  /\ Cardinality(at) = IF cnt > 0 THEN 1 ELSE 0
                               /\ \A p \in at : e[p].failed_row_count = cnt

\* the second rule of the list fails in both records, the first in none:
\* one entry, with count 2
C24_Witness ==
    /\ WriterDid("generate_summarised_row_dq_res")
    /\ dq.flag
    /\ Len(dq.rules) = 2
    /\ Len(dq.df) = 2
    /\ dq.out.summarised_row_dq_res.present
    /\ Len(dq.out.summarised_row_dq_res.val) = 1
    /\ dq.out.summarised_row_dq_res.val[1].rule = dq.rules[2].rule
    /\ dq.out.summarised_row_dq_res.val[1].failed_row_count = 2

\* C25: write_error_records_final hands back (error_count, dataset):
\* error_count is the number of input records with at least one non-empty
\* per-rule result, the dataset holds every input record with
\* meta_row_dq_results listing exactly that record's non-empty results,
\* and the records with a non-empty meta_row_dq_results, and only they, are
\* saved to the error table in one save call.
C25_ErrorRecordsSavedAllReturned ==
    (WriterDid("write_error_records_final") /\ dq.flag)
        => LET out == dq.out
               failing == {i \in DOMAIN dq.df : dq.df[i].failed # {}}
           IN  /\ out.raised = "none"
               /\ out.error_count = Cardinality(failing)
               /\ Len(out.df) = Len(dq.df)
               /\ \A i \in DOMAIN dq.df :
                    LET meta == out.df[i].meta_row_dq_results
                    IN  /\ {meta[k] : k \in DOMAIN meta} = dq.df[i].failed
                        /\ Len(meta) = Cardinality(dq.df[i].failed)
               /\ Len(out.saved) = 1
               /\ Len(out.saved[1]) = Cardinality(failing)
               /\ \A i \in failing :
                    out.saved[1][Cardinality({k \in failing : k <= i})]
                       = out.df[i]

\* the four records of the fixture: three are saved, four come back
C25_Witness ==
    /\ WriterDid("write_error_records_final")
    /\ dq.flag
    /\ dq.df = FixtureDqDataset
    /\ dq.out.error_count = 3
    /\ Len(dq.out.df) = 4
    /\ Len(dq.out.saved[1]) = 3
    /\ dq.out.df[2].meta_row_dq_results = <<>>

OutsideRowStage ==
    /\ stage >= 1
    /\ stage <= NumStages => CurStage # "row"

\* a step that leaves the producer's dataset and the row stage's output as
\* they are
KeepsDatasets ==
    OutsideRowStage
        => /\ local'.df = local.df
           /\ local'.row_dq_df = local.row_dq_df

\* C27, in every state: what the wrapper returns and what it hands to the
\* target-table write is the row stage's output
C27_State ==
    /\ ReturnedNormally => local.ret = local.row_dq_df
    /\ Happened(<<"write", "row">>)
          => /\ local.written = local.row_dq_df
             /\ Truthy(local.written) => local.written.kind = "row"
    /\ Truthy(local.ret) => local.ret.kind = "row"
    /\ (stage >= 1 /\ stage <= StageIndex("row"))
          => local.df.kind \in {"raw", "temp"}

\* C27: aggregate and query stages never remove or change records: the
\* dataset returned and the dataset written to the target table are the
\* row stage's output, and the row stage's input is the producer's dataset,
\* whatever the outcomes of source_agg, source_query, final_agg and
\* final_query, rule failures with action ignore or drop included.
C27_AggAndQueryStagesKeepRecords == [](C27_State) /\ [][KeepsDatasets]_vars

\* rules with action ignore or drop failed in a source stage and in a
\* final stage; the row stage's output was written and returned
C27_Witness ==
    /\ ReturnedNormally
    /\ outcome["source_agg"] = "breach_soft"
    /\ outcome["final_query"] = "breach_soft"
    /\ Evaluated("row")
    /\ Happened(<<"write", "row">>)
    /\ local.ret.kind = "row"
    /\ local.dq_df["final_query"].kind = "agg"

\* the five events of a stage block, in the order the claims state
StageEvents == <<"mark", "start", "eval", "status", "end">>

\* the kinds of the events of stage s in the log of the current run, in the
\* order they happened
EventsOf(s) ==
    LET five(e) == /\ Len(e) = 2
                   /\ e[2] = s
                   /\ e[1] \in {StageEvents[k] : k \in DOMAIN StageEvents}
        mine == SelectSeq(log, five)
    IN  [i \in DOMAIN mine |-> mine[i][1]]

\* C29: for every stage that is evaluated the events come in the order
\* status set to Failed, start timestamp, evaluator, status overwritten
\* with the evaluator's outcome, end timestamp; while the evaluator runs the
\* status reads Failed, and a stage has an end timestamp of this run only
\* if its status has been overwritten with the evaluator's outcome.
C29_StageEventOrder ==
    /\ \A s \in Stages :
          LET done == EventsOf(s)
          IN  /\ Len(done) <= Len(StageEvents)
              /\ done = SubSeq(StageEvents, 1, Len(done))
              /\ Len(done) >= 4
                    => context.status[s] = EvalStatus(outcome[s])
              /\ (pc # "idle" /\ context.end_time[s] = run)
                    => Len(done) = 5
              /\ Evaluated(s) <=> Len(done) >= 3
    /\ pc = "eval"
          => /\ context.status[CurStage] = "Failed"
             /\ context.start_time[CurStage] = run
             /\ context.end_time[CurStage] # run
             /\ EventsOf(CurStage) = <<"mark", "start">>

\* the evaluator of the final_agg stage is about to run after the row
\* stage passed: the status of final_agg reads Failed
C29_Witness ==
    /\ pc = "eval"
    /\ CurStage = "final_agg"
    /\ context.status["final_agg"] = "Failed"
    /\ context.status["row"] = "Passed"
    /\ context.end_time["row"] = run
    /\ Happened(<<"start", "final_agg">>)

\* an error raised in the block of a stage, by the evaluator or by the
\* view publication or the output count of the row stage, has left the
\* wrapper
RaisedInStage ==
    /\ pc \in {"raised", "done"}
    /\ exc.cause \in {"evaluator", "view", "count"}
    /\ stage \in 1..NumStages

\* C30: when the evaluator of stage S (or the view publication or the
\* output count of the row stage) raises and the error leaves the wrapper,
\* the status of S is Failed, its start timestamp is set and its end
\* timestamp is not; every stage evaluated before S holds its evaluator's
\* outcome; every stage after S holds the default status and was never
\* evaluated; nothing was written to the target table.
C30_StateAfterStageError ==
    RaisedInStage
        => /\ context.status[CurStage] = "Failed"
           /\ context.start_time[CurStage] = run
           /\ context.end_time[CurStage] # run
           /\ \A t \in Stages :
                 /\ (StageIndex(t) < stage /\ Evaluated(t))
                       => context.status[t] = EvalStatus(outcome[t])
                 /\ StageIndex(t) > stage
                       => /\ context.status[t] = DefaultStageStatus
                          /\ ~Evaluated(t)
                          /\ context.start_time[t] # run
           /\ ~Happened(<<"write", "row">>)

\* the output count of the row stage raised after source_agg had passed
C30_Witness ==
    /\ AtEnd
    /\ RaisedInStage
    /\ CurStage = "row"
    /\ exc.cause = "count"
    /\ context.status["source_agg"] = "Passed"
    /\ context.status["row"] = "Failed"
    /\ context.status["final_agg"] = DefaultStageStatus

\* C31: source_agg, source_query and row are each evaluated on the raw
\* dataset (the producer's result, or its re-read from the temp table when
\* write_to_temp_table is set) and never on another stage's output;
\* final_agg and final_query are evaluated on the dataset the row stage
\* handed back and are passed the row stage's error_count and output_count.
C31_DatasetFlow ==
    \A s \in Stages :
        Evaluated(s)
          => IF s \in {"source_agg", "source_query", "row"}
               THEN /\ local.args[s].df = local.df
                    /\ local.df.kind
                         = IF cfg.write_to_temp_table THEN "temp" ELSE "raw"
                    /\ local.df.n = local.input_count
                    /\ local.args[s].counts = <<>>
               ELSE /\ local.args[s].df = local.row_dq_df
                    /\ local.args[s].df.kind \in {"row", "none"}
                    /\ local.args[s].counts
                         = <<local.error_count, local.output_count>>
                    /\ local.error_count = context.error_count
                    /\ local.output_count = context.output_count

\* all five stages evaluated after the re-read from the temp table; the
\* row stage removed a record and the final stages were told so
C31_Witness ==
    /\ ReturnedNormally
    /\ cfg.write_to_temp_table
    /\ \A s \in Stages : Evaluated(s)
    /\ local.args["source_query"].df.kind = "temp"
    /\ local.args["final_query"].df.kind = "row"
    /\ local.args["final_query"].df.n < local.df.n
    /\ local.args["final_agg"].counts = <<1, local.df.n - 1>>

\* C32: whenever the final_query evaluator is invoked, the row-filtered
\* dataset has been published before as a view under the target view name
\* (target_table_view, or '<target_table>_view' when none is given), and the
\* dataset under that name is the one passed to the evaluator.
C32_ViewPublishedBeforeFinalQuery ==
    Evaluated("final_query")
      => LET name == IF cfg.target_table_view \in {None, Some("")}
                       THEN "orders_view"
                       ELSE cfg.target_table_view.val
         IN  /\ cfg.target_table = "orders"
             /\ Pos(<<"publish", "final_query">>) > 0
             /\ Pos(<<"publish", "final_query">>)
                  < Pos(<<"eval", "final_query">>)
             /\ Truthy(views[name])
             /\ views[name] = local.args["final_query"].df
             /\ views[name] = local.row_dq_df

\* the final_query evaluator ran on a row-filtered dataset published under
\* the name the caller gave
C32_Witness ==
    /\ Evaluated("final_query")
    /\ cfg.target_table_view = Some("curated")
    /\ views["curated"].kind = "row"
    /\ views["orders_view"] = NoneDF
    /\ local.args["final_query"].df = views["curated"]

\* C33: at the end of a run, every stage that was not evaluated in that run
\* has its start and end timestamps unset and a reported duration of zero,
\* even when the stage was evaluated in an earlier run on the same instance.
C33_UnevaluatedStagesHaveNoTimes ==
    AtEnd
      => \A s \in Stages :
            ~Evaluated(s)
              => /\ context.start_time[s] = 0
                 /\ context.end_time[s] = 0
                 /\ StageRunTime(context, s) = "zero"

\* the wrapper has been left: it returned or it raised
WrapperLeft == pc \in {"returned", "raised", "done"}

\* C34 (state part): a run that is over ended in exactly one of two ways.
\* Either the wrapper returned, and then every enabled stage was evaluated,
\* yielded a status and was closed, and no other stage was touched; or it
\* raised the fatal error.
C34_State ==
    WrapperLeft
      => /\ (exc = NoExc) # (exc.class = MiscException)
         /\ pc = "returned" => exc = NoExc
         /\ pc = "raised" => exc.class = MiscException
         /\ exc = NoExc
              => \A s \in Stages :
                    IF StageEnabled(s, cfg)
                      THEN /\ Evaluated(s)
                           /\ Happened(<<"status", s>>)
                           /\ context.end_time[s] = run
                      ELSE /\ ~Evaluated(s)
                           /\ ~Happened(<<"mark", s>>)
                           /\ context.status[s] = "Skipped"

\* C34 (step part): a stage block is entered only from an earlier block, so
\* no stage is re-entered; a stage's evaluator is invoked only if it was not
\* invoked before; once the wrapper is left no stage is resumed.
C34_Step ==
    /\ pc' = "guard" => stage' > stage
    /\ \A s \in Stages : outcome'[s] # outcome[s] => outcome[s] = "none"
    /\ WrapperLeft
         => /\ pc' \in {"done"}
            /\ UNCHANGED <<stage, outcome, log, exc, local>>

\* C34: every run terminates, in exactly one of two outcomes: the wrapper
\* returns after all enabled stages completed and yielded a status, or it
\* raises the fatal error; no stage is left partially evaluated and resumed,
\* and no stage is re-entered.
C34_RunTerminatesOneWay ==
    /\ [](C34_State)
    /\ [][C34_Step]_vars
    /\ (pc = "func") ~> WrapperLeft

\* a run that returned after evaluating all five stages
C34_Witness ==
    /\ pc = "returned"
    /\ \A s \in Stages : Evaluated(s)
    /\ \E s \in Stages : context.status[s] = "Failed"

\* C35: the row-filtered dataset is written to the target table at most
\* once per run, only when row_dq and write_to_table are both true, and only
\* after every enabled stage, final_agg and final_query included, completed
\* without raising; nothing stage-related follows the write.
C35_WriteOnceAfterAllStages ==
    LET w == Pos(<<"write", "row">>)
    IN  w > 0
          => /\ cfg.flags["row_dq"] /\ cfg.write_to_table
             /\ w = Len(log)
             /\ exc = NoExc
             /\ stage = NumStages + 1
             /\ local.written = local.row_dq_df
             /\ \A s \in Stages :
                   StageEnabled(s, cfg)
                     => /\ Evaluated(s)
                        /\ outcome[s] # "error"
                        /\ context.end_time[s] = run

\* the dataset was written after all five stages, one of which reported
\* Failed without raising
C35_Witness ==
    /\ Happened(<<"write", "row">>)
    /\ ReturnedNormally
    /\ \A s \in Stages : Evaluated(s)
    /\ context.status["final_query"] = "Failed"

\* C36: when row_dq is disabled, the call returns no dataset (None, not the
\* producer's dataset), nothing is written to the target table even if
\* write_to_table is true, and error_count and output_count stay at the
\* defaults of the reset, whatever the source stages did.
C36_NothingWithoutRowDq ==
    (~cfg.flags["row_dq"] /\ Happened(<<"reset">>))
      => /\ context.error_count = 0
         /\ context.output_count = 0
         /\ local.error_count = 0 /\ local.output_count = 0
         /\ local.row_dq_df = NoneDF
         /\ ~Happened(<<"write", "row">>)
         /\ local.written = NoneDF
         /\ pc \in {"returned", "done"} /\ exc = NoExc
              => local.ret = NoneDF /\ local.ret # local.df

\* row_dq off and write_to_table on: a source stage found a breach on a
\* non-empty dataset and the call returned
C36_Witness ==
    /\ ReturnedNormally
    /\ ~cfg.flags["row_dq"]
    /\ cfg.write_to_table
    /\ local.df.n > 0
    /\ outcome["source_agg"] = "breach_fail"
    /\ context.input_count > 0

\* the producer, or counting its result, raised in the current run: the
\* exception came before the first stage block
ProducerRaised ==
    exc # NoExc /\ stage = 0 /\ exc.cause \in {"producer", "count"}

\* C37 (state part): when the producer or the count raised, the exception
\* is SparkExpectationsMiscException, the reset was not performed, no field
\* of the context carries anything of this run, and the record the stats
\* collaborator writes holds the statuses and counts the context held
\* before the call.
C37_State ==
    ProducerRaised
      => /\ exc.class = MiscException
         /\ log = <<>>
         /\ \A s \in Stages : /\ context.start_time[s] < run
                              /\ context.end_time[s] < run
         /\ \A s \in ResultStages : context.result[s] < run
         /\ context.summarised_row_dq_res < run
         /\ (pc = "done" /\ stats.written)
              => /\ \A s \in Stages : stats.dq_status[s] = context.status[s]
                 /\ stats.input_count = context.input_count
                 /\ stats.error_count = context.error_count
                 /\ stats.output_count = context.output_count

\* C37 (step part): from the call of the wrapper to the raise out of the
\* producer or the count, no field of the context changes.
C37_Step ==
    (pc' = "func" \/ (pc = "func" /\ pc' = "raised")) => context' = context

\* C37: if the producer raises, or counting its result raises, the wrapper
\* modifies no field of the context before raising
\* SparkExpectationsMiscException: the reset is not performed, and what the
\* run before left stays visible to the stats and notification
\* collaborators.
C37_ProducerRaisesContextUntouched ==
    [](C37_State) /\ [][C37_Step]_vars

\* the producer raised in a second call; the row stage's Failed status,
\* its counts and its times of the first call are in the context and in
\* the stats record of the second
C37_Witness ==
    /\ pc = "done"
    /\ run > 1
    /\ ProducerRaised
    /\ context.status["row"] = "Failed"
    /\ context.start_time["row"] = run - 1
    /\ context.input_count > 0
    /\ stats.dq_status["row"] = "Failed"

\* the settings the decoration of the wrapper being run computed
Captured == wrappers[running]

\* a decoration was made after the one of the wrapper being run, with other
\* settings
LaterDecoration ==
    /\ running < Len(wrappers)
    /\ wrappers[Len(wrappers)].error_drop_threshold
         # Captured.error_drop_threshold
    /\ wrappers[Len(wrappers)].notification_on_breach
         # Captured.notification_on_breach
    /\ wrappers[Len(wrappers)].flags # Captured.flags

\* C38: whatever the order of decorations and calls on one instance, the
\* error_drop_threshold stored in the context at the start of a run, the
\* breach-notification flag and the stage flags used by the run are those
\* captured by the decoration that created the wrapper being run, not those
\* of a later decoration.
C38_RunUsesItsOwnClosure ==
    (run > 0 /\ Happened(<<"reset">>))
      => /\ context.error_drop_threshold = Captured.error_drop_threshold
         /\ \A s \in Stages :
               /\ Happened(<<"mark", s>>) => StageEnabled(s, Captured)
               /\ Past(s) /\ StageEnabled(s, Captured)
                    => Happened(<<"mark", s>>)
         /\ Happened(<<"notify", "row">>)
              => /\ Captured.notification_on_breach
                 /\ 10000 - OutputPercentage(context)
                      >= 100 * Captured.error_drop_threshold
         /\ (Past("row") /\ ~Happened(<<"notify", "row">>)
                /\ Captured.notification_on_breach)
              => 10000 - OutputPercentage(context)
                   < 100 * Captured.error_drop_threshold

\* the first wrapper is run after a second decoration with another
\* threshold, the breach notification off and other stage flags: it sends
\* the breach notification at its own threshold and runs its own stages
C38_Witness ==
    /\ ReturnedNormally
    /\ LaterDecoration
    /\ Happened(<<"notify", "row">>)
    /\ Evaluated("final_query")
    /\ ~StageEnabled("final_query", wrappers[Len(wrappers)])
    /\ context.error_drop_threshold
         < wrappers[Len(wrappers)].error_drop_threshold

\* the notification flags and the streaming options a context holds
NotificationSettingsOf(r) ==
    <<r.notification_on_start, r.notification_on_completion,
      r.notification_on_fail, r.se_streaming_stats_dict>>

\* C39 (state part): at any moment, a run included, the notification flags
\* and the streaming options in the context are those of the most recent
\* decoration on the instance.
C39_State ==
    NotificationSettingsOf(context)
        = NotificationSettingsOf(wrappers[Len(wrappers)])

\* C39 (step part): these fields are written by a decoration and by no step
\* of a run; the reset at the start of a run leaves them as they are.
C39_Step ==
    /\ NotificationSettingsOf(context') # NotificationSettingsOf(context)
         => /\ wrappers' # wrappers
            /\ pc \in {"idle", "done"} /\ pc' = pc
            /\ run' = run /\ log' = log
    /\ Len(log') = 1 /\ log = <<>>
         => /\ log'[1] = <<"reset">>
            /\ NotificationSettingsOf(context')
                 = NotificationSettingsOf(context)

\* C39: notification_on_start, notification_on_completion,
\* notification_on_fail and the streaming-stats options are written to the
\* shared context at decoration time and never at run time: during a run
\* they are those of the most recent decoration, which need not be the
\* decoration of the wrapper being run, and the reset leaves them unchanged.
C39_NotificationFlagsOfLatestDecoration ==
    [](C39_State) /\ [][C39_Step]_vars

\* the first wrapper is being run, past its reset, while the context holds
\* the flags and options of the second decoration, all of them other than
\* the ones the first decoration computed
C39_Witness ==
    /\ pc = "eval"
    /\ Happened(<<"reset">>)
    /\ running = 1
    /\ Len(wrappers) = 2
    /\ context.notification_on_start # Captured.notification_on_start
    /\ context.notification_on_completion
         # Captured.notification_on_completion
    /\ context.notification_on_fail # Captured.notification_on_fail
    /\ context.se_streaming_stats_dict # Captured.se_streaming_stats_dict

\* the flag the claim says spark_conf[k] resolves to
ClaimedFlag(spark_conf, k) ==
    IF k \notin DOMAIN spark_conf
      THEN k = "se_notifications_on_fail"
      ELSE IF spark_conf[k] \in {BoolValue(TRUE), BoolValue(FALSE)}
             THEN spark_conf[k].val
             ELSE FALSE

\* C40: a notification flag absent from spark_conf takes its default
\* (on_start false, on_completion false, on_fail true, on_threshold_breach
\* false); a flag present with a boolean value takes that value; a flag
\* present with a value that is not a boolean resolves to false, on_fail
\* included.  Resolution raises nothing: whatever the values, the
\* decoration yields its wrapper, which holds the resolved flags.
C40_FlagsResolved ==
    /\ cfg.notification_on_start
         = ClaimedFlag(cfg.spark_conf, "se_notifications_on_start")
    /\ cfg.notification_on_completion
         = ClaimedFlag(cfg.spark_conf, "se_notifications_on_completion")
    /\ cfg.notification_on_fail
         = ClaimedFlag(cfg.spark_conf, "se_notifications_on_fail")
    /\ cfg.notification_on_breach
         = ClaimedFlag(cfg.spark_conf,
             "se_notifications_on_error_drop_exceeds_threshold_breach")
    /\ context.notification_on_start = cfg.notification_on_start
    /\ context.notification_on_completion = cfg.notification_on_completion
    /\ context.notification_on_fail = cfg.notification_on_fail
    /\ Len(wrappers) = 1
    /\ wrappers[running] = cfg

\* a run returned under a spark_conf with on_fail given as the int 1, on_start
\* as a string, on_completion as true and the breach flag absent
C40_Witness ==
    /\ ReturnedNormally
    /\ cfg.spark_conf
         = [k \in NotificationKeys
                   \ {"se_notifications_on_error_drop_exceeds_threshold_breach"}
              |-> CASE k = "se_notifications_on_fail" -> IntValue(1)
                    [] k = "se_notifications_on_start" -> StrValue
                    [] OTHER -> BoolValue(TRUE)]
    /\ ~context.notification_on_fail
    /\ ~context.notification_on_start
    /\ context.notification_on_completion
    /\ ~cfg.notification_on_breach

====
